---- MODULE Spec2Model ----
(***************************************************************************)
(* Fleet trip accounting: the rollup and flag helpers (utils/helpers), the *)
(* trip store as App.tsx drives it, and the views computed from it.        *)
(*                                                                         *)
(* JavaScript values are modelled as tagged records so that null, a        *)
(* non-array object and an array can all stand where the code expects an   *)
(* array.  A number that may be missing is an integer, NoNumber standing   *)
(* for undefined.  A quotient is kept exact as a fraction [n, d].          *)
(***************************************************************************)
EXTENDS Integers, Sequences, FiniteSets, TLC

VARIABLES
  trips,        \* the store's trip array (AppContext.trips), a JS value
  editingTrip,  \* App.tsx state: the trip captured by handleEditTrip
  showTripForm, \* App.tsx state
  selectedTrip, \* App.tsx state: id of the trip shown in TripDetails, 0 if none
  nextId,       \* trips created so far + 1: the id the next trip gets
  lastCall,     \* name of the helper applied last ("none" before any call)
  result,       \* what that helper returned, or Thrown
  dieselRecords, \* the store's diesel records (AppContext.dieselRecords)
  linkageModal, \* TripLinkageModal: the record it is open for, selectedTripId
  manualForm,   \* ManualDieselEntryModal: formData
  probeModal,   \* ProbeVerificationModal: the record it is open for, formData
  connectionStatus, \* AppContext.connectionStatus
  lastSyncTime, \* FirestoreStatus state: the time of the last sync, -1 for null
  isRefreshing, \* FirestoreStatus state; true while its refresh timer is pending
  isInitialLoad, \* App.tsx state
  loadTimer,    \* seconds until the initial-load timer fires, -1 when none is set
  elapsed       \* seconds since the app was mounted

vars == <<trips, editingTrip, showTripForm, selectedTrip, nextId, lastCall, result,
          dieselRecords, linkageModal, manualForm, probeModal,
          connectionStatus, lastSyncTime, isRefreshing,
          isInitialLoad, loadTimer, elapsed>>

\* the connection, the status panel and the initial load
uiVars == <<connectionStatus, lastSyncTime, isRefreshing, isInitialLoad, loadTimer, elapsed>>

\* connected, the panel not refreshing, the initial load over and no timer set
LoadedOnline ==
  /\ connectionStatus = "connected"
  /\ lastSyncTime = 0
  /\ isRefreshing = FALSE
  /\ isInitialLoad = FALSE
  /\ loadTimer = -1
  /\ elapsed = 0

\* the diesel records and the state of the three diesel modals
dieselVars == <<dieselRecords, linkageModal, manualForm, probeModal>>

\* no diesel record, the modals closed and their forms as first rendered
LinkageClosed == [recordId |-> 0, selectedTripId |-> 0]
EmptyManualForm == [fleetNumber |-> "", litresFilled |-> -1, probeReading |-> -1,
                    notes |-> ""]
ProbeClosed == [recordId |-> 0, probeReading |-> -1, verificationNotes |-> ""]
NoDiesel ==
  /\ dieselRecords = <<>>
  /\ linkageModal = LinkageClosed
  /\ manualForm = EmptyManualForm
  /\ probeModal = ProbeClosed

\* the state of App.tsx and of the store beside the trips
appVars == <<editingTrip, showTripForm, selectedTrip, nextId>>

---------------------------------------------------------------------------
(* Bounds *)

MaxTrips == 2      \* trips in an argument list
MaxCosts == 2      \* cost entries of one trip of an argument
MaxFlat  == 3      \* cost entries in a whole argument list
MaxStoreTrips == 1 \* trips ever created in the store
MaxStoreCosts == 2 \* cost entries in the whole store

---------------------------------------------------------------------------
(* JavaScript values *)

NULL      == [tag |-> "null"]
UNDEFINED == [tag |-> "undefined"]
NotArray  == [tag |-> "object"]          \* a value that is not an array: {}
Thrown    == [tag |-> "TypeError"]       \* an exception leaving the function
Array(s)  == [tag |-> "array", items |-> s]

IsArray(v)   == v.tag = "array"          \* Array.isArray(v)
IsNullish(v) == v.tag \in {"null", "undefined"}

NoNumber == -1                           \* undefined where a number is expected
OrZero(x) == IF x = NoNumber THEN 0 ELSE x        \* x || 0

\* a / b in IEEE arithmetic on exact operands: d = 0 stands for
\* Infinity (n = 1), -Infinity (n = -1) and NaN (n = 0)
Div(a, b) ==
  IF b = 0 THEN [n |-> (IF a > 0 THEN 1 ELSE IF a < 0 THEN -1 ELSE 0), d |-> 0]
  ELSE [n |-> a, d |-> b]
Num(a) == [n |-> a, d |-> 1]
IsFinite(q) == q.d # 0
RatEq(p, q) == IsFinite(p) /\ IsFinite(q) /\ p.n * q.d = q.n * p.d

RECURSIVE SumSeq(_)
SumSeq(s) == IF s = <<>> THEN 0 ELSE Head(s) + SumSeq(Tail(s))

Range(s) == {s[i] : i \in DOMAIN s}

\* sequences over S of length 0..n
SeqsUpTo(S, n) == UNION {[1..k -> S] : k \in 0..n}

\* Array.prototype.filter on a sequence, by index predicate
RECURSIVE FilterIdx(_, _, _)
FilterIdx(s, keep, i) ==
  IF i > Len(s) THEN <<>>
  ELSE (IF keep[i] THEN <<s[i]>> ELSE <<>>) \o FilterIdx(s, keep, i + 1)

\* sort((a, b) => key(b) - key(a)) on pairs <<key, element>>: descending and
\* stable, an element going after every one whose key is not smaller
RECURSIVE InsertDesc(_, _)
InsertDesc(sorted, x) ==
  IF sorted = <<>> THEN <<x>>
  ELSE IF x[1] - Head(sorted)[1] > 0 THEN <<x>> \o sorted
  ELSE <<Head(sorted)>> \o InsertDesc(Tail(sorted), x)

RECURSIVE SortPairsDesc(_)
SortPairsDesc(s) ==
  IF s = <<>> THEN <<>>
  ELSE InsertDesc(SortPairsDesc(SubSeq(s, 1, Len(s) - 1)), s[Len(s)])

\* s sorted by descending keys[i]
SortDescBy(s, keys) ==
  LET sorted == SortPairsDesc([i \in DOMAIN s |-> <<keys[i], s[i]>>])
  IN [i \in DOMAIN sorted |-> sorted[i][2]]

\* the distinct values of a sequence in order of first appearance
RECURSIVE Distinct(_)
Distinct(s) ==
  IF s = <<>> THEN <<>>
  ELSE LET front == Distinct(SubSeq(s, 1, Len(s) - 1))
       IN IF s[Len(s)] \in Range(front) THEN front ELSE Append(front, s[Len(s)])

---------------------------------------------------------------------------
(* Entities (types/index.ts: CostEntry, Trip).  A date is a day number; day 1
   is a Monday and the days of the model lie in one calendar year. *)

\* flaggedAt / resolvedAt = 0: absent; attachments: how many are attached
Cost(id, amount, isFlagged, investigationStatus, flaggedAt, date) ==
  [tag |-> "cost", id |-> id, category |-> "Fuel", amount |-> amount,
   isFlagged |-> isFlagged, investigationStatus |-> investigationStatus,
   flaggedAt |-> flaggedAt, resolvedAt |-> 0, date |-> date, attachments |-> 0]

\* a trip with every field at a plain value; inputs vary it with EXCEPT
DefaultTrip ==
  [tag |-> "trip", id |-> 1, status |-> "active", costs |-> Array(<<>>),
   additionalCosts |-> UNDEFINED, baseRevenue |-> 1000, distanceKm |-> 100,
   revenueCurrency |-> "ZAR", clientType |-> "external",
   driverName |-> "D1", fleetNumber |-> "F1", route |-> "R1",
   finalOffloadDateTime |-> 0, actualOffloadDateTime |-> 0, endDate |-> 1,
   delayReasons |-> UNDEFINED, followUpHistory |-> UNDEFINED]

AdditionalCost(amount) == [tag |-> "additionalCost", amount |-> amount]

---------------------------------------------------------------------------
(* utils/helpers: cost calculations *)

\* the reduce callback reads cost.amount: a null element throws
HasNullItem(arr) == \E i \in DOMAIN arr.items : IsNullish(arr.items[i])

\* typeof cost.amount === 'number' ? cost.amount : 0
AmountOf(cost) == IF cost.amount = NoNumber THEN 0 ELSE cost.amount

calculateTotalCosts(costs) ==
  IF ~IsArray(costs) THEN 0                       \* !costs || !Array.isArray
  ELSE IF HasNullItem(costs) THEN 0               \* caught TypeError
  ELSE SumSeq([i \in DOMAIN costs.items |-> AmountOf(costs.items[i])])

\* trip.additionalCosts?.reduce((sum, cost) => sum + cost.amount, 0) || 0
\* throws when the value has no reduce or an element is null
additionalCostsThrows(additionalCosts) ==
  /\ ~IsNullish(additionalCosts)
  /\ (~IsArray(additionalCosts) \/ HasNullItem(additionalCosts))

additionalCostsTotal(additionalCosts) ==
  IF IsNullish(additionalCosts) THEN 0
  ELSE SumSeq([i \in DOMAIN additionalCosts.items |-> additionalCosts.items[i].amount])

KPIs(totalRevenue, totalExpenses, netProfit, profitMargin, costPerKm, currency) ==
  [totalRevenue |-> totalRevenue, totalExpenses |-> totalExpenses,
   netProfit |-> netProfit, profitMargin |-> profitMargin,
   costPerKm |-> costPerKm, currency |-> currency]

\* the object the catch block of calculateKPIs returns
ZeroKPIs(currency) == KPIs(0, 0, 0, Num(0), Num(0), currency)

\* trip.revenueCurrency || 'ZAR'
CurrencyOrZAR(trip) == IF trip.revenueCurrency = "" THEN "ZAR" ELSE trip.revenueCurrency

\* mutant: the margin without the guard on totalRevenue
kpiProfitMarginUnguarded(netProfit, totalRevenue) == Div(netProfit * 100, totalRevenue)

\* totalRevenue > 0 ? (netProfit / totalRevenue) * 100 : 0
kpiProfitMargin(netProfit, totalRevenue) ==
  IF totalRevenue > 0 THEN Div(netProfit * 100, totalRevenue) ELSE Num(0)

\* trip.distanceKm && trip.distanceKm > 0 ? totalCosts / trip.distanceKm : 0
kpiCostPerKm(totalCosts, distanceKm) ==
  IF distanceKm # NoNumber /\ distanceKm > 0 THEN Div(totalCosts, distanceKm) ELSE Num(0)

\* mutant: the cost entries alone, additional costs left out
kpiTotalCostsEntriesOnly(totalExpenses, additional) == totalExpenses

\* totalCosts = totalExpenses + additionalCostsTotal
kpiTotalCosts(totalExpenses, additional) == totalExpenses + additional

calculateKPIs(trip) ==
  IF IsNullish(trip) THEN Thrown   \* try: trip.baseRevenue throws; catch: trip.revenueCurrency throws again
  ELSE IF additionalCostsThrows(trip.additionalCosts) THEN ZeroKPIs(CurrencyOrZAR(trip))
  ELSE
    LET totalRevenue  == OrZero(trip.baseRevenue)
        totalExpenses == calculateTotalCosts(trip.costs)
        totalCosts    == kpiTotalCosts(totalExpenses, additionalCostsTotal(trip.additionalCosts))
        netProfit     == totalRevenue - totalCosts
    IN KPIs(totalRevenue, totalCosts, netProfit,
            kpiProfitMargin(netProfit, totalRevenue),
            kpiCostPerKm(totalCosts, trip.distanceKm),
            trip.revenueCurrency)

---------------------------------------------------------------------------
(* utils/helpers: flag and investigation helpers *)

\* costs.filter(pred).length
CountItems(arr, Pred(_)) == Cardinality({i \in DOMAIN arr.items : Pred(arr.items[i])})

IsFlaggedCost(cost) == cost.isFlagged
IsUnresolvedCost(cost) == cost.isFlagged /\ cost.investigationStatus # "resolved"

getFlaggedCostsCount(costs) ==
  IF ~IsArray(costs) THEN 0
  ELSE IF HasNullItem(costs) THEN 0
  ELSE CountItems(costs, IsFlaggedCost)

\* mutant: every entry that is not resolved counts, flagged or not
getUnresolvedFlagsCountAnyEntry(costs) ==
  IF ~IsArray(costs) THEN 0
  ELSE IF HasNullItem(costs) THEN 0
  ELSE CountItems(costs, LAMBDA cost : cost.investigationStatus # "resolved")

getUnresolvedFlagsCount(costs) ==
  IF ~IsArray(costs) THEN 0
  ELSE IF HasNullItem(costs) THEN 0
  ELSE CountItems(costs, IsUnresolvedCost)

\* mutant: unresolvedFlags >= 0 for unresolvedFlags === 0
canCompleteTripNoGate(trip) ==
  IF IsNullish(trip) THEN FALSE
  ELSE getUnresolvedFlagsCount(trip.costs) >= 0

\* mutant: any flag blocks, resolved or not
canCompleteTripNoFlagAtAll(trip) ==
  IF IsNullish(trip) THEN FALSE
  ELSE getFlaggedCostsCount(trip.costs) = 0

canCompleteTrip(trip) ==
  IF IsNullish(trip) THEN FALSE                   \* trip.costs throws, caught
  ELSE getUnresolvedFlagsCount(trip.costs) = 0

\* mutant: the status is not looked at
shouldAutoCompleteTripAnyStatus(trip) ==
  IF IsNullish(trip) THEN FALSE
  ELSE IF ~IsArray(trip.costs) THEN FALSE
  ELSE IF HasNullItem(trip.costs) THEN FALSE
  ELSE IF CountItems(trip.costs, IsFlaggedCost) = 0 THEN FALSE
  ELSE getUnresolvedFlagsCount(trip.costs) = 0

\* mutant: a trip without flags qualifies too
shouldAutoCompleteTripUnflagged(trip) ==
  IF IsNullish(trip) THEN FALSE
  ELSE IF trip.status # "active" THEN FALSE
  ELSE IF ~IsArray(trip.costs) THEN FALSE
  ELSE IF HasNullItem(trip.costs) THEN FALSE
  ELSE getUnresolvedFlagsCount(trip.costs) = 0

shouldAutoCompleteTrip(trip) ==
  IF IsNullish(trip) THEN FALSE                   \* trip.status throws, caught
  ELSE IF trip.status # "active" THEN FALSE
  ELSE IF ~IsArray(trip.costs) THEN FALSE         \* trip.costs.filter throws, caught
  ELSE IF HasNullItem(trip.costs) THEN FALSE      \* cost.isFlagged throws, caught
  ELSE IF CountItems(trip.costs, IsFlaggedCost) = 0 THEN FALSE
  ELSE getUnresolvedFlagsCount(trip.costs) = 0

\* new Date(x.flaggedAt || x.date).getTime(); flaggedAt = 0 is an absent one
FlagTime(cost) == IF cost.flaggedAt # 0 THEN cost.flaggedAt ELSE cost.date

\* mutant: oldest first within a group
flaggedCostCompareAscending(a, b) ==
  IF a.investigationStatus = "pending" /\ b.investigationStatus # "pending" THEN -1
  ELSE IF a.investigationStatus # "pending" /\ b.investigationStatus = "pending" THEN 1
  ELSE FlagTime(a) - FlagTime(b)

\* the comparator getAllFlaggedCosts passes to sort
flaggedCostCompare(a, b) ==
  IF a.investigationStatus = "pending" /\ b.investigationStatus # "pending" THEN -1
  ELSE IF a.investigationStatus # "pending" /\ b.investigationStatus = "pending" THEN 1
  ELSE FlagTime(b) - FlagTime(a)

\* Array.prototype.sort is stable: x goes after every element that does not
\* compare greater than it
RECURSIVE InsertFlaggedCost(_, _)
InsertFlaggedCost(sorted, x) ==
  IF sorted = <<>> THEN <<x>>
  ELSE IF flaggedCostCompare(Head(sorted), x) > 0 THEN <<x>> \o sorted
  ELSE <<Head(sorted)>> \o InsertFlaggedCost(Tail(sorted), x)

RECURSIVE SortFlaggedCosts(_)
SortFlaggedCosts(s) ==
  IF s = <<>> THEN <<>>
  ELSE InsertFlaggedCost(SortFlaggedCosts(SubSeq(s, 1, Len(s) - 1)), s[Len(s)])

\* { ...cost, tripFleetNumber, tripRoute, tripDriverName }
FlaggedCost(cost, trip) ==
  [tag |-> "flaggedCost", id |-> cost.id, category |-> cost.category,
   amount |-> cost.amount, isFlagged |-> cost.isFlagged,
   investigationStatus |-> cost.investigationStatus,
   flaggedAt |-> cost.flaggedAt, resolvedAt |-> cost.resolvedAt,
   date |-> cost.date, attachments |-> cost.attachments,
   tripFleetNumber |-> trip.fleetNumber, tripRoute |-> trip.route,
   tripDriverName |-> trip.driverName]

\* the inner forEach: the flagged costs of one trip, in order
FlaggedOfTrip(trip) ==
  IF ~IsArray(trip.costs) THEN <<>>               \* return from the callback
  ELSE LET c == trip.costs.items
       IN FilterIdx([i \in DOMAIN c |-> FlaggedCost(c[i], trip)],
                    [i \in DOMAIN c |-> c[i].isFlagged], 1)

RECURSIVE FlattenFlagged(_)
FlattenFlagged(ts) ==
  IF ts = <<>> THEN <<>> ELSE FlaggedOfTrip(Head(ts)) \o FlattenFlagged(Tail(ts))

\* a null trip, or a null cost in a cost array, throws inside the try
FlaggedScanThrows(ts) ==
  \E i \in DOMAIN ts :
    \/ IsNullish(ts[i])
    \/ IsArray(ts[i].costs) /\ HasNullItem(ts[i].costs)

getAllFlaggedCosts(tripList) ==
  IF ~IsArray(tripList) THEN <<>>
  ELSE IF FlaggedScanThrows(tripList.items) THEN <<>>
  ELSE SortFlaggedCosts(FlattenFlagged(tripList.items))

---------------------------------------------------------------------------
(* utils/helpers: generateCurrencyFleetReport *)

\* trips.filter(pred) on a sequence of trips
SelectTrips(ts, Pred(_)) == FilterIdx(ts, [i \in DOMAIN ts |-> Pred(ts[i])], 1)

\* calculateTotalCosts(trip.costs) + (trip.additionalCosts?.reduce(...) || 0)
TripExpenses(trip) ==
  calculateTotalCosts(trip.costs) + additionalCostsTotal(trip.additionalCosts)

RevenueOf(ts)  == SumSeq([i \in DOMAIN ts |-> OrZero(ts[i].baseRevenue)])
ExpensesOf(ts) == SumSeq([i \in DOMAIN ts |-> TripExpenses(ts[i])])
MarginOf(ts) ==
  IF RevenueOf(ts) > 0 THEN Div((RevenueOf(ts) - ExpensesOf(ts)) * 100, RevenueOf(ts))
  ELSE Num(0)

\* the flags of a trip list: flatMap(trip => trip.costs.filter(isFlagged))
RECURSIVE AllFlagsOf(_)
AllFlagsOf(ts) ==
  IF ts = <<>> THEN <<>>
  ELSE SelectTrips(Head(ts).costs.items, IsFlaggedCost) \o AllFlagsOf(Tail(ts))

\* days from flaggedAt to resolvedAt, 3 when either stamp is absent
ResolutionDays(flag) ==
  IF flag.flaggedAt # 0 /\ flag.resolvedAt # 0
  THEN flag.resolvedAt - flag.flaggedAt ELSE 3

IsResolvedCost(cost) == cost.investigationStatus = "resolved"

avgResolutionTimeOf(flags) ==
  LET resolved == SelectTrips(flags, IsResolvedCost)
  IN IF Len(resolved) > 0
     THEN Div(SumSeq([i \in DOMAIN resolved |-> ResolutionDays(resolved[i])]), Len(resolved))
     ELSE Num(0)

\* mutant: externalTrips incremented for every trip, not in the else branch
fleetDriverStatsCountingAll(ts) ==
  [d \in {ts[i].driverName : i \in DOMAIN ts} |->
     LET mine == SelectTrips(ts, LAMBDA t : t.driverName = d)
     IN [trips    |-> Len(mine),
         revenue  |-> RevenueOf(mine),
         expenses |-> ExpensesOf(mine),
         flags    |-> SumSeq([i \in DOMAIN mine |-> getFlaggedCostsCount(mine[i].costs)]),
         internalTrips |-> Len(SelectTrips(mine, LAMBDA t : t.clientType = "internal")),
         externalTrips |-> Len(mine)]]

\* the reduce that builds driverStats, as a function of the driver names met
fleetDriverStats(ts) ==
  [d \in {ts[i].driverName : i \in DOMAIN ts} |->
     LET mine == SelectTrips(ts, LAMBDA t : t.driverName = d)
     IN [trips    |-> Len(mine),
         revenue  |-> RevenueOf(mine),
         expenses |-> ExpensesOf(mine),
         flags    |-> SumSeq([i \in DOMAIN mine |-> getFlaggedCostsCount(mine[i].costs)]),
         internalTrips |-> Len(SelectTrips(mine, LAMBDA t : t.clientType = "internal")),
         externalTrips |-> Len(SelectTrips(mine, LAMBDA t : t.clientType # "internal"))]]

\* the object returned for a non-array argument and from the catch block
ZeroFleetReport(currency) ==
  [currency |-> currency, totalTrips |-> 0, activeTrips |-> 0, completedTrips |-> 0,
   totalRevenue |-> 0, totalExpenses |-> 0, netProfit |-> 0, profitMargin |-> Num(0),
   avgRevenuePerTrip |-> Num(0), avgCostPerTrip |-> Num(0),
   internalTrips |-> 0, externalTrips |-> 0,
   internalRevenue |-> 0, internalProfitMargin |-> Num(0),
   externalRevenue |-> 0, externalProfitMargin |-> Num(0),
   totalFlags |-> 0, unresolvedFlags |-> 0, tripsWithInvestigations |-> 0,
   investigationRate |-> Num(0), avgFlagsPerTrip |-> Num(0),
   avgResolutionTime |-> Num(0), driverStats |-> << >>]

\* what makes the try block throw: a null trip met by the currency filter, or,
\* among the trips of the currency, an additionalCosts without reduce, or a
\* costs that is not an array or holds a null (trip.costs.filter)
FleetReportThrows(ts, currency) ==
  \/ \E i \in DOMAIN ts : IsNullish(ts[i])
  \/ \E i \in DOMAIN ts :
       /\ ts[i].revenueCurrency = currency
       /\ \/ additionalCostsThrows(ts[i].additionalCosts)
          \/ ~IsArray(ts[i].costs)
          \/ HasNullItem(ts[i].costs)

generateCurrencyFleetReport(tripList, currency) ==
  IF ~IsArray(tripList) THEN ZeroFleetReport(currency)
  ELSE IF FleetReportThrows(tripList.items, currency) THEN ZeroFleetReport(currency)
  ELSE
    LET currencyTrips == SelectTrips(tripList.items, LAMBDA t : t.revenueCurrency = currency)
        totalTrips    == Len(currencyTrips)
        internalTrips == SelectTrips(currencyTrips, LAMBDA t : t.clientType = "internal")
        externalTrips == SelectTrips(currencyTrips, LAMBDA t : t.clientType = "external")
        allFlags      == AllFlagsOf(currencyTrips)
        totalFlags    == Len(allFlags)
        tripsWithInvestigations ==
          Len(SelectTrips(currencyTrips, LAMBDA t : \E j \in DOMAIN t.costs.items :
                                                       t.costs.items[j].isFlagged))
    IN [currency |-> currency,
        totalTrips |-> totalTrips,
        activeTrips |-> Len(SelectTrips(currencyTrips, LAMBDA t : t.status = "active")),
        completedTrips |-> Len(SelectTrips(currencyTrips, LAMBDA t : t.status = "completed")),
        totalRevenue |-> RevenueOf(currencyTrips),
        totalExpenses |-> ExpensesOf(currencyTrips),
        netProfit |-> RevenueOf(currencyTrips) - ExpensesOf(currencyTrips),
        profitMargin |-> MarginOf(currencyTrips),
        avgRevenuePerTrip |->
          IF totalTrips > 0 THEN Div(RevenueOf(currencyTrips), totalTrips) ELSE Num(0),
        avgCostPerTrip |->
          IF totalTrips > 0 THEN Div(ExpensesOf(currencyTrips), totalTrips) ELSE Num(0),
        internalTrips |-> Len(internalTrips),
        externalTrips |-> Len(externalTrips),
        internalRevenue |-> RevenueOf(internalTrips),
        internalProfitMargin |-> MarginOf(internalTrips),
        externalRevenue |-> RevenueOf(externalTrips),
        externalProfitMargin |-> MarginOf(externalTrips),
        totalFlags |-> totalFlags,
        unresolvedFlags |-> Len(SelectTrips(allFlags, LAMBDA c : ~IsResolvedCost(c))),
        tripsWithInvestigations |-> tripsWithInvestigations,
        investigationRate |->
          IF totalTrips > 0 THEN Div(tripsWithInvestigations * 100, totalTrips) ELSE Num(0),
        avgFlagsPerTrip |->
          IF totalTrips > 0 THEN Div(totalFlags, totalTrips) ELSE Num(0),
        avgResolutionTime |-> avgResolutionTimeOf(allFlags),
        driverStats |-> fleetDriverStats(currencyTrips)]

---------------------------------------------------------------------------
(* utils/helpers: generateReport *)

\* !cost.attachments || cost.attachments.length === 0
HasNoDocs(cost) == cost.attachments = 0

\* calculateTripCompliance for a trip without planned/actual arrival times and
\* without delay reasons: only the missing-documentation deduction applies
calculateTripCompliance(trip) ==
  IF ~IsArray(trip.costs) \/ HasNullItem(trip.costs) THEN 0        \* caught
  ELSE LET n == CountItems(trip.costs, HasNoDocs)
           deduction == IF n * 5 < 20 THEN n * 5 ELSE 20
       IN IF n > 0 THEN 100 - deduction ELSE 100

\* the cost breakdown before percentages: one line per category in order of
\* first appearance, then 'Additional Costs'
breakdownLines(trip) ==
  LET c   == trip.costs.items
      ac  == IF IsNullish(trip.additionalCosts) THEN <<>> ELSE trip.additionalCosts.items
      cats == Distinct([i \in DOMAIN c |-> c[i].category]
                       \o [i \in DOMAIN ac |-> "Additional Costs"])
      TotalOf(cat) ==
        SumSeq([i \in DOMAIN c |-> IF c[i].category = cat THEN c[i].amount ELSE 0])
        + (IF cat = "Additional Costs"
           THEN SumSeq([i \in DOMAIN ac |-> ac[i].amount]) ELSE 0)
      CountOf(cat) ==
        Cardinality({i \in DOMAIN c : c[i].category = cat})
        + (IF cat = "Additional Costs" THEN Len(ac) ELSE 0)
  IN [k \in DOMAIN cats |-> [category |-> cats[k], total |-> TotalOf(cats[k]),
                             count |-> CountOf(cats[k])]]

\* the object the catch block of generateReport returns
ZeroReport(currency) ==
  [totalRevenue |-> 0, totalExpenses |-> 0, netProfit |-> 0, profitMargin |-> Num(0),
   costPerKm |-> Num(0), currency |-> currency, costBreakdown |-> <<>>,
   totalCosts |-> 0, hasAttachments |-> FALSE, missingReceipts |-> <<>>,
   flaggedCosts |-> <<>>, complianceScore |-> 0]

\* trip.costs.reduce or trip.additionalCosts.forEach throws
ReportBodyThrows(trip) ==
  \/ ~IsArray(trip.costs)
  \/ HasNullItem(trip.costs)
  \/ additionalCostsThrows(trip.additionalCosts)

generateReport(trip) ==
  IF IsNullish(trip) THEN Thrown   \* calculateKPIs(trip) throws; catch: trip.revenueCurrency throws again
  ELSE IF ReportBodyThrows(trip) THEN ZeroReport(CurrencyOrZAR(trip))
  ELSE
    LET kpis  == calculateKPIs(trip)
        lines == breakdownLines(trip)
        withPct == [k \in DOMAIN lines |->
                     [category |-> lines[k].category, total |-> lines[k].total,
                      count |-> lines[k].count,
                      percentage |-> IF kpis.totalExpenses > 0
                                     THEN Div(lines[k].total * 100, kpis.totalExpenses)
                                     ELSE Num(0)]]
    IN [totalRevenue |-> kpis.totalRevenue, totalExpenses |-> kpis.totalExpenses,
        netProfit |-> kpis.netProfit, profitMargin |-> kpis.profitMargin,
        costPerKm |-> kpis.costPerKm, currency |-> kpis.currency,
        costBreakdown |-> SortDescBy(withPct, [k \in DOMAIN withPct |-> withPct[k].total]),
        totalCosts |-> kpis.totalExpenses,
        hasAttachments |-> \E i \in DOMAIN trip.costs.items : ~HasNoDocs(trip.costs.items[i]),
        missingReceipts |-> SelectTrips(trip.costs.items, HasNoDocs),
        flaggedCosts |-> SelectTrips(trip.costs.items, IsFlaggedCost),
        complianceScore |-> calculateTripCompliance(trip)]

---------------------------------------------------------------------------
(* YearToDateKPIs: the weekly aggregator *)

YearStartDow  == 3     \* getDay() of 1 January of the model's year, a Wednesday
DaysBeforeDay1 == 5    \* days from 1 January to day 1, the first Monday after it

GetDay(day) == day % 7                   \* Date.getDay(): 0 Sunday .. 6 Saturday

\* Math.ceil((pastDaysOfYear + firstDayOfYear.getDay() + 1) / 7)
getWeekNumber(day) ==
  LET pastDaysOfYear == day - 1 + DaysBeforeDay1
  IN (pastDaysOfYear + YearStartDow + 1 + 6) \div 7

\* trip.finalOffloadDateTime || trip.actualOffloadDateTime || trip.endDate
offloadDate(trip) ==
  IF trip.finalOffloadDateTime # 0 THEN trip.finalOffloadDateTime
  ELSE IF trip.actualOffloadDateTime # 0 THEN trip.actualOffloadDateTime
  ELSE trip.endDate

\* monday.setDate(date.getDate() - date.getDay() + 1)
mondayOf(day) == day - GetDay(day) + 1

weekKey(trip) == getWeekNumber(mondayOf(offloadDate(trip)))

\* mutant: invoiced and paid trips are left out
IsCompletedTripOnly(trip) == trip.status = "completed"

IsCompletedTrip(trip) == trip.status \in {"completed", "invoiced", "paid"}

weeklyMetrics(tripList) ==
  LET completedTrips == SelectTrips(tripList.items, IsCompletedTrip)
      keys == Distinct([i \in DOMAIN completedTrips |-> weekKey(completedTrips[i])])
      Week(k) ==
        LET mine   == SelectTrips(completedTrips, LAMBDA t : weekKey(t) = k)
            monday == mondayOf(offloadDate(mine[1]))
            totalRevenue == SumSeq([i \in DOMAIN mine |-> mine[i].baseRevenue])
            totalCosts   == ExpensesOf(mine)
            totalKilometers == SumSeq([i \in DOMAIN mine |-> OrZero(mine[i].distanceKm)])
            grossProfit  == SumSeq([i \in DOMAIN mine |->
                                      mine[i].baseRevenue - TripExpenses(mine[i])])
        IN [weekNumber |-> getWeekNumber(monday),
            weekStart |-> monday, weekEnd |-> monday + 6,
            totalRevenue |-> totalRevenue, totalCosts |-> totalCosts,
            grossProfit |-> grossProfit, totalKilometers |-> totalKilometers,
            ipk |-> IF totalKilometers > 0 THEN Div(totalRevenue, totalKilometers) ELSE Num(0),
            cpk |-> IF totalKilometers > 0 THEN Div(totalCosts, totalKilometers) ELSE Num(0),
            tripCount |-> Len(mine),
            profitMargin |-> IF totalRevenue > 0
                             THEN Div(grossProfit * 100, totalRevenue) ELSE Num(0)]
      weeks == [j \in DOMAIN keys |-> Week(keys[j])]
  IN SortDescBy(weeks, [j \in DOMAIN weeks |-> weeks[j].weekStart])

\* mutant: the guard on previous left out
calculateChangeUnguarded(current, previous) ==
  [value |-> current - previous,
   percentage |-> Div((current - previous) * 100, previous)]

\* the year-over-year delta of one YTD metric
calculateChange(current, previous) ==
  IF previous = 0 THEN [value |-> 0, percentage |-> Num(0)]
  ELSE LET change == current - previous
       IN [value |-> change, percentage |-> Div(change * 100, previous)]

---------------------------------------------------------------------------
(* Dashboard: the stats memo over the filtered trips (well-formed trips: the
   component has no try/catch) *)

\* the reduce that builds driverStats
dashboardDriverStats(ts) ==
  [d \in {ts[i].driverName : i \in DOMAIN ts} |->
     LET mine == SelectTrips(ts, LAMBDA t : t.driverName = d)
         flags == SumSeq([i \in DOMAIN mine |->
                            Len(SelectTrips(mine[i].costs.items, IsFlaggedCost))])
     IN [trips |-> Len(mine),
         flags |-> flags,
         unresolvedFlags |->
           SumSeq([i \in DOMAIN mine |-> getUnresolvedFlagsCount(mine[i].costs)]),
         investigations |-> flags,
         revenue |-> RevenueOf(mine),
         expenses |-> SumSeq([i \in DOMAIN mine |-> calculateTotalCosts(mine[i].costs)]),
         tripsWithFlags |->
           Len(SelectTrips(mine, LAMBDA t : \E j \in DOMAIN t.costs.items :
                                               t.costs.items[j].isFlagged))]]

dashboardStats(tripList) ==
  LET filteredTrips == tripList.items
      zarTrips == SelectTrips(filteredTrips, LAMBDA t : t.revenueCurrency = "ZAR")
      usdTrips == SelectTrips(filteredTrips, LAMBDA t : t.revenueCurrency = "USD")
      CostsOf(ts) == SumSeq([i \in DOMAIN ts |-> calculateTotalCosts(ts[i].costs)])
      allFlaggedCosts == getAllFlaggedCosts(tripList)
  IN [totalTrips |-> Len(filteredTrips),
      zarRevenue |-> RevenueOf(zarTrips),
      zarCosts   |-> CostsOf(zarTrips),
      zarProfit  |-> RevenueOf(zarTrips) - CostsOf(zarTrips),
      usdRevenue |-> RevenueOf(usdTrips),
      usdCosts   |-> CostsOf(usdTrips),
      usdProfit  |-> RevenueOf(usdTrips) - CostsOf(usdTrips),
      totalEntries |-> SumSeq([i \in DOMAIN filteredTrips |->
                                 Len(filteredTrips[i].costs.items)]),
      allFlaggedCosts |-> allFlaggedCosts,
      unresolvedFlags |-> SelectTrips(allFlaggedCosts, LAMBDA c : ~IsResolvedCost(c)),
      resolvedFlags   |-> SelectTrips(allFlaggedCosts, IsResolvedCost),
      driverStats |-> dashboardDriverStats(filteredTrips),
      tripsReadyForCompletion |->
        SelectTrips(filteredTrips, LAMBDA t : t.status = "active" /\ canCompleteTrip(t)),
      tripsWithUnresolvedFlags |->
        SelectTrips(filteredTrips, LAMBDA t : t.status = "active"
                                              /\ getUnresolvedFlagsCount(t.costs) > 0)]

\* ActiveTrips card: profit = (trip.baseRevenue || 0) - calculateTotalCosts(trip.costs)
activeTripCardProfit(trip) == OrZero(trip.baseRevenue) - calculateTotalCosts(trip.costs)

---------------------------------------------------------------------------
(* What a call leaves in the caller's data.  None of the four rollups assigns
   to a property of its argument or calls a mutating array method on it:
   getAllFlaggedCosts pushes copies ({...cost}) to its own flaggedCosts array
   and sorts that one; generateCurrencyFleetReport and the weekly aggregator
   only filter/reduce and write to objects they created; calculateKPIs only
   reads. *)

\* mutant: the sort applied to each trip's own costs array
tripsWithCostsSortedInPlace(tripList) ==
  IF ~IsArray(tripList) THEN tripList
  ELSE IF FlaggedScanThrows(tripList.items) THEN tripList
  ELSE Array([i \in DOMAIN tripList.items |->
                IF IsArray(tripList.items[i].costs)
                THEN [tripList.items[i] EXCEPT
                        !.costs = Array(SortFlaggedCosts(@.items))]
                ELSE tripList.items[i]])

tripAfterCalculateKPIs(trip) == trip
tripsAfterGetAllFlaggedCosts(tripList) == tripList
tripsAfterFleetReport(tripList) == tripList
tripsAfterWeeklyMetrics(tripList) == tripList

---------------------------------------------------------------------------
(* Inputs of the helper specification *)

FleetNames  == <<"F1", "F2", "F3", "F4">>
DriverNames == <<"D1", "D2", "D3", "D4">>
RouteNames  == <<"R1", "R2", "R3", "R4">>

\* the k-th trip of a list: its own id, fleet, driver and route
NthTrip(k) ==
  [DefaultTrip EXCEPT !.id = k, !.fleetNumber = FleetNames[k],
                      !.driverName = DriverNames[k], !.route = RouteNames[k]]

\* cost entries get their position as id
WithIds(cs, base) == [i \in DOMAIN cs |-> [cs[i] EXCEPT !.id = base + i]]

\* one trip, financial fields varied, unflagged costs
PlainCosts == {Cost(0, a, FALSE, "none", 0, 1) : a \in {150, 200}}
FinancialTrips ==
  {[DefaultTrip EXCEPT !.costs = Array(WithIds(cs, 0)), !.baseRevenue = rev,
                       !.distanceKm = km, !.additionalCosts = ac] :
     cs \in SeqsUpTo(PlainCosts, MaxCosts), rev \in {NoNumber, 0, 1000},
     km \in {NoNumber, 0, 100},
     ac \in {UNDEFINED, Array(<<>>), Array(<<AdditionalCost(50)>>)}}

\* a cost entry in each state of the flag workflow; a flag stamped at 2, or
\* not stamped and dated 1
FlagCosts ==
  {Cost(0, 100, FALSE, "none", 0, 1)}
  \cup {Cost(0, 100, TRUE, st, at, 1) :
          st \in {"pending", "in-progress", "resolved"}, at \in {0, 2}}

\* one trip, status and flags varied
FlagTrips ==
  {[DefaultTrip EXCEPT !.costs = Array(WithIds(cs, 0)), !.status = st] :
     cs \in SeqsUpTo(FlagCosts, MaxCosts), st \in {"active", "completed"}}

\* MaxTrips trips sharing up to MaxFlat cost entries: owner[i] is the trip of
\* the i-th entry, entries kept in order
Owners(n) == {o \in [1..n -> 1..MaxTrips] : \A i \in 1..n : \A j \in i..n : o[i] <= o[j]}
\* flags for a shared list: pending and non-pending ones, stamped (2) and not
\* stamped (dated 1), and an unflagged entry
SharedCosts ==
  {Cost(0, 100, FALSE, "none", 0, 1),
   Cost(0, 100, TRUE, "pending", 2, 1), Cost(0, 100, TRUE, "pending", 0, 1),
   Cost(0, 100, TRUE, "resolved", 2, 1), Cost(0, 100, TRUE, "in-progress", 0, 1)}

ListOf(cs, o) ==
  Array([k \in 1..MaxTrips |->
           [NthTrip(k) EXCEPT !.costs =
              Array(FilterIdx(WithIds(cs, 0), [i \in DOMAIN cs |-> o[i] = k], 1))]])
SharedLists ==
  UNION {{ListOf(cs, o) : cs \in [1..n -> SharedCosts], o \in Owners(n)} : n \in 0..MaxFlat}

\* up to MaxTrips trips with one cost entry and one additional cost each,
\* varied in status, currency and end date (a Saturday, a Sunday, a Monday)
DatedTrip(k, st, cur, day) ==
  [NthTrip(k) EXCEPT !.status = st, !.revenueCurrency = cur, !.endDate = day,
                     !.costs = Array(<<Cost(k, 100, FALSE, "none", 0, day)>>),
                     !.additionalCosts = Array(<<AdditionalCost(50)>>)]
DatedLists ==
  UNION {{Array([k \in 1..n |-> DatedTrip(k, st[k], cur[k], day[k])]) :
            st \in [1..n -> {"active", "completed"}],
            cur \in [1..n -> {"ZAR", "USD"}],
            day \in [1..n -> {6, 7, 8}]} : n \in 0..MaxTrips}

\* malformed arguments: no list, no trip, no cost array, a null cost, an
\* additionalCosts that is no array, beside a well-formed flagged trip
FlaggedTrip ==
  [NthTrip(2) EXCEPT !.costs = Array(<<Cost(9, 100, TRUE, "pending", 2, 1)>>)]
MalformedTrips ==
  {NULL, UNDEFINED,
   [DefaultTrip EXCEPT !.costs = NULL],
   [DefaultTrip EXCEPT !.costs = UNDEFINED],
   [DefaultTrip EXCEPT !.costs = NotArray],
   [DefaultTrip EXCEPT !.costs = Array(<<NULL>>)],
   [DefaultTrip EXCEPT !.costs = Array(<<Cost(1, 100, TRUE, "pending", 2, 1), NULL>>)],
   [DefaultTrip EXCEPT !.additionalCosts = NotArray],
   [DefaultTrip EXCEPT !.additionalCosts = Array(<<NULL>>)],
   [DefaultTrip EXCEPT !.baseRevenue = NoNumber, !.costs = NULL, !.status = "completed"]}
MalformedLists ==
  {NULL, UNDEFINED, NotArray}
  \cup {Array(<<t>>) : t \in MalformedTrips}
  \cup {Array(<<t, FlaggedTrip>>) : t \in MalformedTrips}
  \cup {Array(<<FlaggedTrip, t>>) : t \in MalformedTrips}

\* trips of one week in every status of the lifecycle
StatusLists ==
  UNION {{Array([k \in 1..n |->
                   [DatedTrip(k, st[k], "ZAR", 6) EXCEPT !.baseRevenue = 1000 * k]]) :
            st \in [1..n -> {"active", "completed", "invoiced", "paid"}]} :
         n \in 1..MaxTrips}

\* a week of one completed trip without kilometres or without revenue
ZeroWeekLists ==
  {Array(<<[DatedTrip(1, "completed", "ZAR", 6) EXCEPT !.distanceKm = km,
                                                       !.baseRevenue = rev]>>) :
     km \in {0, NoNumber, 100}, rev \in {0, 1000}}

\* trips varied in client type, currency and driver
ClientTrip(k, ct, cur, dr) ==
  [DatedTrip(k, "completed", cur, 6) EXCEPT !.clientType = ct, !.driverName = dr,
                                            !.baseRevenue = 1000 * k]
ClientLists ==
  UNION {{Array([k \in 1..n |-> ClientTrip(k, ct[k], cur[k], dr[k])]) :
            ct \in [1..n -> {"internal", "external"}],
            cur \in [1..n -> {"ZAR", "USD"}],
            dr \in [1..n -> {"D1", "D2"}]} : n \in 1..MaxTrips}

\* the YTD figures of the two years a delta is taken of
YtdCurrent  == {50, 150}
YtdPrevious == {0, 100}

HelperInputs ==
  {Array(<<t>>) : t \in FinancialTrips \cup FlagTrips}
  \cup SharedLists \cup DatedLists \cup StatusLists \cup ZeroWeekLists
  \cup ClientLists
  \cup MalformedLists

\* a list the components (which have no try/catch) can be given
WellFormedTrip(t) ==
  /\ ~IsNullish(t)
  /\ IsArray(t.costs) /\ ~HasNullItem(t.costs)
  /\ ~additionalCostsThrows(t.additionalCosts)
  /\ t.baseRevenue # NoNumber
WellFormedList(l) == IsArray(l) /\ \A i \in DOMAIN l.items : WellFormedTrip(l.items[i])

---------------------------------------------------------------------------
(* The helper specification: an argument is drawn, then helpers are applied
   to it, each call recording what it returned and leaving in trips what the
   call left of its argument. *)

Ret(v) == [tag |-> "ret", value |-> v]
Call(fn, arg) == [fn |-> fn, arg |-> arg]
NoCall == Call("none", 0)

InitHelpers ==
  /\ trips \in HelperInputs
  /\ editingTrip = UNDEFINED
  /\ showTripForm = FALSE
  /\ selectedTrip = 0
  /\ nextId = 1
  /\ lastCall = NoCall
  /\ result = UNDEFINED
  /\ NoDiesel
  /\ LoadedOnline

\* the trips of the argument list a single-trip helper can be given
Args == IF IsArray(trips) THEN DOMAIN trips.items ELSE {}

\* no call is in progress
Idle == lastCall = NoCall

CallCalculateTotalCosts ==
  \E i \in Args :
    /\ Idle
    /\ ~IsNullish(trips.items[i])
    /\ lastCall' = Call("calculateTotalCosts", i)
    /\ result' = Ret(calculateTotalCosts(trips.items[i].costs))
    /\ UNCHANGED <<trips, appVars, dieselVars, uiVars>>

CallCalculateKPIs ==
  \E i \in Args :
    /\ Idle
    /\ lastCall' = Call("calculateKPIs", i)
    /\ result' = LET r == calculateKPIs(trips.items[i])
                 IN IF r = Thrown THEN Thrown ELSE Ret(r)
    /\ trips' = [trips EXCEPT !.items[i] = tripAfterCalculateKPIs(@)]
    /\ UNCHANGED <<appVars, dieselVars, uiVars>>

CallGetFlaggedCostsCount ==
  \E i \in Args :
    /\ Idle
    /\ ~IsNullish(trips.items[i])
    /\ lastCall' = Call("getFlaggedCostsCount", i)
    /\ result' = Ret(getFlaggedCostsCount(trips.items[i].costs))
    /\ UNCHANGED <<trips, appVars, dieselVars, uiVars>>

CallGetUnresolvedFlagsCount ==
  \E i \in Args :
    /\ Idle
    /\ ~IsNullish(trips.items[i])
    /\ lastCall' = Call("getUnresolvedFlagsCount", i)
    /\ result' = Ret(getUnresolvedFlagsCount(trips.items[i].costs))
    /\ UNCHANGED <<trips, appVars, dieselVars, uiVars>>

CallCanCompleteTrip ==
  \E i \in Args :
    /\ Idle
    /\ lastCall' = Call("canCompleteTrip", i)
    /\ result' = Ret(canCompleteTrip(trips.items[i]))
    /\ UNCHANGED <<trips, appVars, dieselVars, uiVars>>

CallShouldAutoCompleteTrip ==
  \E i \in Args :
    /\ Idle
    /\ lastCall' = Call("shouldAutoCompleteTrip", i)
    /\ result' = Ret(shouldAutoCompleteTrip(trips.items[i]))
    /\ UNCHANGED <<trips, appVars, dieselVars, uiVars>>

CallGenerateReport ==
  \E i \in Args :
    /\ Idle
    /\ lastCall' = Call("generateReport", i)
    /\ result' = LET r == generateReport(trips.items[i])
                 IN IF r = Thrown THEN Thrown ELSE Ret(r)
    /\ UNCHANGED <<trips, appVars, dieselVars, uiVars>>

CallGetAllFlaggedCosts ==
  /\ Idle
  /\ lastCall' = Call("getAllFlaggedCosts", 0)
  /\ result' = Ret(getAllFlaggedCosts(trips))
  /\ trips' = tripsAfterGetAllFlaggedCosts(trips)
  /\ UNCHANGED <<appVars, dieselVars, uiVars>>

CallGenerateCurrencyFleetReport ==
  \E c \in {1, 2} :
    /\ Idle
    /\ lastCall' = Call("generateCurrencyFleetReport", c)
    /\ result' = Ret(generateCurrencyFleetReport(trips, <<"ZAR", "USD">>[c]))
    /\ trips' = tripsAfterFleetReport(trips)
    /\ UNCHANGED <<appVars, dieselVars, uiVars>>

CallWeeklyMetrics ==
  /\ Idle
  /\ WellFormedList(trips)
  /\ lastCall' = Call("weeklyMetrics", 0)
  /\ result' = Ret(weeklyMetrics(trips))
  /\ trips' = tripsAfterWeeklyMetrics(trips)
  /\ UNCHANGED <<appVars, dieselVars, uiVars>>

CallDashboardStats ==
  /\ Idle
  /\ WellFormedList(trips)
  /\ lastCall' = Call("dashboardStats", 0)
  /\ result' = Ret(dashboardStats(trips))
  /\ UNCHANGED <<trips, appVars, dieselVars, uiVars>>

CallCalculateChange ==
  \E current \in YtdCurrent, previous \in YtdPrevious :
    /\ Idle
    /\ lastCall' = Call("calculateChange", [current |-> current, previous |-> previous])
    /\ result' = Ret(calculateChange(current, previous))
    /\ UNCHANGED <<trips, appVars, dieselVars, uiVars>>

\* the caller takes the result; the argument stays as the call left it
Return ==
  /\ ~Idle
  /\ lastCall' = NoCall
  /\ result' = UNDEFINED
  /\ UNCHANGED <<trips, appVars, dieselVars, uiVars>>

NextHelpers ==
  \/ CallCalculateTotalCosts
  \/ CallCalculateKPIs
  \/ CallGetFlaggedCostsCount
  \/ CallGetUnresolvedFlagsCount
  \/ CallCanCompleteTrip
  \/ CallShouldAutoCompleteTrip
  \/ CallGenerateReport
  \/ CallGetAllFlaggedCosts
  \/ CallGenerateCurrencyFleetReport
  \/ CallWeeklyMetrics
  \/ CallDashboardStats
  \/ CallCalculateChange
  \/ Return

SpecHelpers == InitHelpers /\ [][NextHelpers]_vars

---------------------------------------------------------------------------
(* The trip store and App.tsx.  The handlers of App.tsx are in the source;
   the store's own operations (AppContext) are written from the data model:
   a trip is created active and without costs, costs and flags change while
   it is active, a flag goes pending -> in-progress -> resolved, completion
   is gated by canCompleteTrip, and completed -> invoiced -> paid. *)

TripIds == 1..MaxStoreTrips

\* cost entries in the store
StoreCosts == SumSeq([i \in DOMAIN trips.items |-> Len(trips.items[i].costs.items)])

\* what the trip form submits: the route is the field an edit changes
FormRoutes == {"R1", "R2"}
\* the route a new trip is entered with
NewRoutes == {"R1"}
TripData(route) == [route |-> route]

Stored == trips.items
IndexOf(id) == CHOOSE i \in DOMAIN Stored : Stored[i].id = id
InStore(id) == \E i \in DOMAIN Stored : Stored[i].id = id
TripOf(id) == Stored[IndexOf(id)]

\* AppContext.addTrip: id assigned, status active, no costs
addTrip(tripData) ==
  Array(Append(Stored,
     [DefaultTrip EXCEPT !.id = nextId, !.route = tripData.route,
                         !.additionalCosts = Array(<<>>),
                         !.delayReasons = Array(<<>>),
                         !.followUpHistory = Array(<<>>)]))

\* AppContext.updateTrip: the trip with that id is replaced
updateTrip(trip) ==
  Array([i \in DOMAIN Stored |-> IF Stored[i].id = trip.id THEN trip ELSE Stored[i]])

\* AppContext.deleteTrip
deleteTrip(id) == Array(SelectTrips(Stored, LAMBDA t : t.id # id))

\* the trip with one cost entry replaced
WithCost(trip, j, cost) == [trip EXCEPT !.costs = Array([trip.costs.items EXCEPT ![j] = cost])]

\* App.handleAddTrip, reached from the form when no trip is being edited
handleAddTrip ==
  \E r \in NewRoutes :
    /\ showTripForm /\ editingTrip = UNDEFINED
    /\ nextId <= MaxStoreTrips
    /\ trips' = addTrip(TripData(r))
    /\ nextId' = nextId + 1
    /\ showTripForm' = FALSE
    /\ editingTrip' = UNDEFINED
    /\ UNCHANGED <<selectedTrip, lastCall, result, dieselVars, uiVars>>

\* editing.field || []
OrEmpty(v) == IF IsNullish(v) THEN Array(<<>>) ELSE v

\* { ...tripData }: the trip as the form alone describes it, a fresh one
updatedTripOfFormOnly(editing, tripData) ==
  [editing EXCEPT !.route = tripData.route,
                  !.costs = Array(<<>>),
                  !.status = "active",
                  !.additionalCosts = Array(<<>>),
                  !.delayReasons = Array(<<>>),
                  !.followUpHistory = Array(<<>>)]

\* { ...editingTrip, ...tripData, costs: editingTrip.costs, status: ... }
updatedTripOf(editing, tripData) ==
  [editing EXCEPT !.route = tripData.route,
                  !.costs = editing.costs,
                  !.status = editing.status,
                  !.additionalCosts = OrEmpty(editing.additionalCosts),
                  !.delayReasons = OrEmpty(editing.delayReasons),
                  !.followUpHistory = OrEmpty(editing.followUpHistory)]

\* App.handleUpdateTrip, reached from the form when a trip is being edited
handleUpdateTrip ==
  \E r \in FormRoutes :
    /\ showTripForm /\ editingTrip # UNDEFINED
    /\ trips' = updateTrip(updatedTripOf(editingTrip, TripData(r)))
    /\ editingTrip' = UNDEFINED
    /\ showTripForm' = FALSE
    /\ UNCHANGED <<selectedTrip, nextId, lastCall, result, dieselVars, uiVars>>

\* App.handleEditTrip, from the Edit button of an Active Trips card; the
\* lists are rendered only while no trip is selected (renderContent)
handleEditTrip ==
  \E i \in DOMAIN Stored :
    /\ selectedTrip = 0
    /\ Stored[i].status = "active"
    /\ editingTrip' = Stored[i]
    /\ showTripForm' = TRUE
    /\ UNCHANGED <<trips, selectedTrip, nextId, lastCall, result, dieselVars, uiVars>>

\* App.handleDeleteTrip, confirmed
handleDeleteTrip ==
  \E i \in DOMAIN Stored :
    /\ selectedTrip = 0
    /\ Stored[i].status = "active"
    /\ trips' = deleteTrip(Stored[i].id)
    /\ selectedTrip' = IF selectedTrip = Stored[i].id THEN 0 ELSE selectedTrip
    /\ UNCHANGED <<editingTrip, showTripForm, nextId, lastCall, result, dieselVars, uiVars>>

\* App.handleViewTrip / TripDetails onBack
handleViewTrip ==
  \E i \in DOMAIN Stored :
    /\ selectedTrip = 0
    /\ selectedTrip' = Stored[i].id
    /\ UNCHANGED <<trips, editingTrip, showTripForm, nextId, lastCall, result, dieselVars, uiVars>>

handleBack ==
  /\ selectedTrip # 0
  /\ selectedTrip' = 0
  /\ UNCHANGED <<trips, editingTrip, showTripForm, nextId, lastCall, result, dieselVars, uiVars>>

\* Header: the Add Trip button is disabled unless connected
addTripEnabled == connectionStatus = "connected"

\* App.handleNewTrip, from the Add Trip button of the Header
handleNewTrip ==
  /\ addTripEnabled
  /\ editingTrip' = UNDEFINED
  /\ showTripForm' = TRUE
  /\ UNCHANGED <<trips, selectedTrip, nextId, lastCall, result, dieselVars, uiVars>>

\* App.handleCloseTripForm
handleCloseTripForm ==
  /\ showTripForm
  /\ showTripForm' = FALSE
  /\ editingTrip' = UNDEFINED
  /\ UNCHANGED <<trips, selectedTrip, nextId, lastCall, result, dieselVars, uiVars>>

\* a cost entry is added to an active trip, flagged for review or not
addCostEntry ==
  \E i \in DOMAIN Stored : \E flagged \in BOOLEAN :
    /\ Stored[i].status = "active"
    /\ StoreCosts < MaxStoreCosts
    /\ LET id == Len(Stored[i].costs.items) + 1
           cost == IF flagged THEN Cost(id, 100, TRUE, "pending", 1, 1)
                   ELSE Cost(id, 100, FALSE, "none", 0, 1)
       IN trips' = updateTrip([Stored[i] EXCEPT !.costs = Array(Append(@.items, cost))])
    /\ UNCHANGED <<appVars, lastCall, result, dieselVars, uiVars>>

\* the reviewer flags an entry of an active trip: unflagged -> pending
flagCost ==
  \E i \in DOMAIN Stored : \E j \in DOMAIN Stored[i].costs.items :
    /\ Stored[i].status = "active"
    /\ ~Stored[i].costs.items[j].isFlagged
    /\ trips' = updateTrip(WithCost(Stored[i], j,
                  [Stored[i].costs.items[j] EXCEPT !.isFlagged = TRUE,
                     !.investigationStatus = "pending", !.flaggedAt = 1]))
    /\ UNCHANGED <<appVars, lastCall, result, dieselVars, uiVars>>

\* the reviewer takes up a pending flag: pending -> in-progress
startInvestigation ==
  \E i \in DOMAIN Stored : \E j \in DOMAIN Stored[i].costs.items :
    /\ Stored[i].status = "active"
    /\ Stored[i].costs.items[j].isFlagged
    /\ Stored[i].costs.items[j].investigationStatus = "pending"
    /\ trips' = updateTrip(WithCost(Stored[i], j,
                  [Stored[i].costs.items[j] EXCEPT !.investigationStatus = "in-progress"]))
    /\ UNCHANGED <<appVars, lastCall, result, dieselVars, uiVars>>

\* the reviewer resolves a flag: pending or in-progress -> resolved
resolveFlag ==
  \E i \in DOMAIN Stored : \E j \in DOMAIN Stored[i].costs.items :
    /\ Stored[i].status = "active"
    /\ Stored[i].costs.items[j].isFlagged
    /\ Stored[i].costs.items[j].investigationStatus \in {"pending", "in-progress"}
    /\ trips' = updateTrip(WithCost(Stored[i], j,
                  [Stored[i].costs.items[j] EXCEPT !.investigationStatus = "resolved",
                                                   !.resolvedAt = 1]))
    /\ UNCHANGED <<appVars, lastCall, result, dieselVars, uiVars>>

\* active -> completed by hand, offered when canCompleteTrip(trip)
completeTrip ==
  \E i \in DOMAIN Stored :
    /\ Stored[i].status = "active"
    /\ canCompleteTrip(Stored[i])
    /\ trips' = updateTrip([Stored[i] EXCEPT !.status = "completed"])
    /\ UNCHANGED <<appVars, lastCall, result, dieselVars, uiVars>>

\* active -> completed automatically, when shouldAutoCompleteTrip(trip)
autoCompleteTrip ==
  \E i \in DOMAIN Stored :
    /\ shouldAutoCompleteTrip(Stored[i])
    /\ trips' = updateTrip([Stored[i] EXCEPT !.status = "completed"])
    /\ UNCHANGED <<appVars, lastCall, result, dieselVars, uiVars>>

\* completed -> invoiced -> paid
invoiceTrip ==
  \E i \in DOMAIN Stored :
    /\ Stored[i].status = "completed"
    /\ trips' = updateTrip([Stored[i] EXCEPT !.status = "invoiced"])
    /\ UNCHANGED <<appVars, lastCall, result, dieselVars, uiVars>>

payTrip ==
  \E i \in DOMAIN Stored :
    /\ Stored[i].status = "invoiced"
    /\ trips' = updateTrip([Stored[i] EXCEPT !.status = "paid"])
    /\ UNCHANGED <<appVars, lastCall, result, dieselVars, uiVars>>

Init ==
  /\ trips = Array(<<>>)
  /\ editingTrip = UNDEFINED
  /\ showTripForm = FALSE
  /\ selectedTrip = 0
  /\ nextId = 1
  /\ lastCall = NoCall
  /\ result = UNDEFINED
  /\ NoDiesel
  /\ LoadedOnline

Next ==
  \/ handleNewTrip
  \/ handleAddTrip
  \/ handleEditTrip
  \/ handleUpdateTrip
  \/ handleCloseTripForm
  \/ handleDeleteTrip
  \/ handleViewTrip
  \/ handleBack
  \/ addCostEntry
  \/ flagCost
  \/ startInvestigation
  \/ resolveFlag
  \/ completeTrip
  \/ autoCompleteTrip
  \/ invoiceTrip
  \/ payTrip

Spec == Init /\ [][Next]_vars

---------------------------------------------------------------------------
(* Diesel records and TripLinkageModal.  The modal's guards and handlers are
   in the source; allocateDieselToTrip and removeDieselFromTrip (AppContext)
   are written from the diesel evaluator's linkage rule: linking creates one
   fuel cost entry of the record's totalCost on the trip, unlinking removes
   it.  Deleting a trip does not touch the diesel records. *)

MaxLinkTrips == 2       \* trips in the store when the linkage modal is used
MaxDieselRecords == 1   \* diesel records in the store

\* a number that may be undefined, where every integer is a value
Defined(v) == [tag |-> "number", value |-> v]

\* DieselRecord: probeReading is -1 when undefined, tripId 0 when not linked
DieselRecord(id, fleetNumber, litresFilled) ==
  [id |-> id, fleetNumber |-> fleetNumber, litresFilled |-> litresFilled,
   totalCost |-> 8325, notes |-> "", tripId |-> 0, hasProbe |-> FALSE,
   probeReading |-> -1, probeDiscrepancy |-> UNDEFINED, probeVerified |-> FALSE,
   probeVerificationNotes |-> "",
   kmReading |-> 1000, previousKmReading |-> -1, distanceTravelled |-> -1,
   kmPerLitre |-> UNDEFINED, costPerLitre |-> Div(8325, litresFilled),
   currency |-> "ZAR"]

RecordIds == {dieselRecords[i].id : i \in DOMAIN dieselRecords}
RecordOf(recordId) ==
  dieselRecords[CHOOSE i \in DOMAIN dieselRecords : dieselRecords[i].id = recordId]

\* the cost entry a linkage creates, and the test for it
DieselCost(record, id) ==
  Cost(id, record.totalCost, FALSE, "none", 0, 1) @@ [dieselRecordId |-> record.id]
IsDieselCostOf(cost, recordId) ==
  "dieselRecordId" \in DOMAIN cost /\ cost.dieselRecordId = recordId

\* AppContext.allocateDieselToTrip
allocateDieselToTrip(recordId, tripId) ==
  /\ dieselRecords' =
       [i \in DOMAIN dieselRecords |->
          IF dieselRecords[i].id = recordId
          THEN [dieselRecords[i] EXCEPT !.tripId = tripId] ELSE dieselRecords[i]]
  /\ trips' =
       Array([i \in DOMAIN Stored |->
                IF Stored[i].id = tripId
                THEN [Stored[i] EXCEPT !.costs =
                        Array(Append(@.items,
                                     DieselCost(RecordOf(recordId), Len(@.items) + 1)))]
                ELSE Stored[i]])

\* mutant: the linkage is cleared, the cost entry stays
removeDieselFromTripKeepingCost(recordId) ==
  /\ dieselRecords' =
       [i \in DOMAIN dieselRecords |->
          IF dieselRecords[i].id = recordId
          THEN [dieselRecords[i] EXCEPT !.tripId = 0] ELSE dieselRecords[i]]
  /\ trips' = trips

\* AppContext.removeDieselFromTrip
removeDieselFromTrip(recordId) ==
  /\ dieselRecords' =
       [i \in DOMAIN dieselRecords |->
          IF dieselRecords[i].id = recordId
          THEN [dieselRecords[i] EXCEPT !.tripId = 0] ELSE dieselRecords[i]]
  /\ trips' =
       Array([i \in DOMAIN Stored |->
                IF Stored[i].id = RecordOf(recordId).tripId
                THEN [Stored[i] EXCEPT !.costs =
                        Array(SelectTrips(@.items,
                                LAMBDA c : ~IsDieselCostOf(c, recordId)))]
                ELSE Stored[i]])

\* trips.filter(trip => trip.fleetNumber === dieselRecord.fleetNumber &&
\*                      trip.status === 'active')
availableTrips(record) ==
  SelectTrips(Stored, LAMBDA t : t.fleetNumber = record.fleetNumber /\ t.status = "active")

\* dieselRecord.tripId ? trips.find(t => t.id === dieselRecord.tripId) : undefined
HasCurrentLinkedTrip(record) == record.tripId # 0 /\ InStore(record.tripId)

\* the modal is opened for a record, its selection empty
openLinkageModal ==
  \E recordId \in RecordIds :
    /\ linkageModal.recordId = 0
    /\ linkageModal' = [recordId |-> recordId, selectedTripId |-> 0]
    /\ UNCHANGED <<trips, appVars, lastCall, result, dieselRecords, manualForm, probeModal, uiVars>>

\* Cancel
closeLinkageModal ==
  /\ linkageModal.recordId # 0
  /\ linkageModal' = LinkageClosed
  /\ UNCHANGED <<trips, appVars, lastCall, result, dieselRecords, manualForm, probeModal, uiVars>>

\* TripLinkageModal.handleChange, from the Select rendered while the record
\* has no current linked trip and a trip is available
handleChangeTrip ==
  /\ linkageModal.recordId # 0
  /\ LET record == RecordOf(linkageModal.recordId)
         options == availableTrips(record)
     IN /\ ~HasCurrentLinkedTrip(record)
        /\ Len(options) > 0
        /\ \E tripId \in {0} \cup {options[i].id : i \in DOMAIN options} :
             /\ tripId # linkageModal.selectedTripId
             /\ linkageModal' = [linkageModal EXCEPT !.selectedTripId = tripId]
  /\ UNCHANGED <<trips, appVars, lastCall, result, dieselRecords, manualForm, probeModal, uiVars>>

\* TripLinkageModal.handleSave, from the Link to Trip button
handleSave ==
  /\ linkageModal.recordId # 0
  /\ LET record == RecordOf(linkageModal.recordId)
     IN /\ ~HasCurrentLinkedTrip(record)
        /\ Len(availableTrips(record)) > 0
  /\ linkageModal.selectedTripId # 0
  /\ allocateDieselToTrip(linkageModal.recordId, linkageModal.selectedTripId)
  /\ lastCall' = Call("allocateDieselToTrip", linkageModal.recordId)
  /\ linkageModal' = LinkageClosed
  /\ UNCHANGED <<appVars, result, manualForm, probeModal, uiVars>>

\* TripLinkageModal.handleRemoveLinkage, confirmed, from the Remove Linkage
\* button rendered while the record has a current linked trip
handleRemoveLinkage ==
  /\ linkageModal.recordId # 0
  /\ HasCurrentLinkedTrip(RecordOf(linkageModal.recordId))
  /\ RecordOf(linkageModal.recordId).tripId # 0
  /\ removeDieselFromTrip(linkageModal.recordId)
  /\ lastCall' = Call("removeDieselFromTrip", linkageModal.recordId)
  /\ linkageModal' = LinkageClosed
  /\ UNCHANGED <<appVars, result, manualForm, probeModal, uiVars>>

\* the store holds active trips of fleet F1, each without cost entries or
\* with one, and diesel records of that fleet, none linked
LinkTrip(k, costs) ==
  [DefaultTrip EXCEPT !.id = k, !.additionalCosts = Array(<<>>), !.costs = Array(costs)]
InitLinkage ==
  /\ \E n \in 1..MaxLinkTrips :
       \E costs \in [1..n -> {<<>>, <<Cost(1, 100, FALSE, "none", 0, 1)>>}] :
         /\ trips = Array([k \in 1..n |-> LinkTrip(k, costs[k])])
         /\ nextId = n + 1
  /\ editingTrip = UNDEFINED
  /\ showTripForm = FALSE
  /\ selectedTrip = 0
  /\ lastCall = NoCall
  /\ result = UNDEFINED
  /\ dieselRecords = [i \in 1..MaxDieselRecords |-> DieselRecord(i, "F1", 450)]
  /\ linkageModal = LinkageClosed
  /\ manualForm = EmptyManualForm
  /\ probeModal = ProbeClosed
  /\ LoadedOnline

NextLinkage ==
  \/ openLinkageModal
  \/ closeLinkageModal
  \/ handleChangeTrip
  \/ handleSave
  \/ handleRemoveLinkage
  \/ handleDeleteTrip

SpecLinkage == InitLinkage /\ [][NextLinkage]_vars

---------------------------------------------------------------------------
(* Diesel records: manual entry, CSV import and the probe verification.
   Litres are whole numbers; an empty form field is NoNumber.  The store's
   addDieselRecord, importDieselFromCSV and updateDieselRecord (AppContext)
   append with the next id and replace by id. *)

\* fleets (types: FLEET_NUMBERS) and the probe-equipped ones among them
DieselFleets == {"F1", "F2"}
TRUCKS_WITH_PROBES == {"F1"}

\* what is typed into the forms and found in the rows of a file
LitresInputs == {450}
ProbeInputs == {0, 380, 400}
NoteInputs == {"", "checked"}

AbsInt(x) == IF x < 0 THEN 0 - x ELSE x

addDieselRecord(recordData) ==
  Append(dieselRecords, [recordData EXCEPT !.id = Len(dieselRecords) + 1])

RECURSIVE AppendAll(_, _)
AppendAll(stored, records) ==
  IF records = <<>> THEN stored
  ELSE AppendAll(Append(stored, [Head(records) EXCEPT !.id = Len(stored) + 1]),
                 Tail(records))

importDieselFromCSV(records) == AppendAll(dieselRecords, records)

updateDieselRecord(record) ==
  [i \in DOMAIN dieselRecords |->
     IF dieselRecords[i].id = record.id THEN record ELSE dieselRecords[i]]

\* ManualDieselEntryModal
manualHasProbe == manualForm.fleetNumber \in TRUCKS_WITH_PROBES

\* handleChange(field, value); the probe input is rendered for probe fleets
manualHandleChange ==
  /\ probeModal = ProbeClosed
  /\ \/ \E f \in DieselFleets : manualForm' = [manualForm EXCEPT !.fleetNumber = f]
     \/ \E l \in LitresInputs : manualForm' = [manualForm EXCEPT !.litresFilled = l]
     \/ /\ manualHasProbe
        /\ \E r \in ProbeInputs \cup {NoNumber} :
              manualForm' = [manualForm EXCEPT !.probeReading = r]
     \/ \E n \in NoteInputs : manualForm' = [manualForm EXCEPT !.notes = n]
  /\ manualForm' # manualForm
  /\ UNCHANGED <<trips, appVars, lastCall, result, dieselRecords, linkageModal, probeModal, uiVars>>

\* formData with its odometer fields
ManualFormData(form, kmReading, previousKmReading) ==
  form @@ [kmReading |-> kmReading, previousKmReading |-> previousKmReading]

\* the odometer fields of a plain fill, kept while the other fields are typed
PlainFill(form) == ManualFormData(form, 1000, NoNumber)

validateManualForm(formData) ==
  /\ formData.fleetNumber # ""
  /\ formData.kmReading # NoNumber /\ formData.kmReading > 0
  /\ formData.previousKmReading # NoNumber => formData.previousKmReading >= 0
  /\ formData.litresFilled # NoNumber /\ formData.litresFilled > 0
  /\ (formData.kmReading # NoNumber /\ formData.previousKmReading # NoNumber)
       => formData.kmReading > formData.previousKmReading
  /\ formData.fleetNumber \in TRUCKS_WITH_PROBES
       => (formData.probeReading # NoNumber /\ formData.probeReading >= 0)

manualValidateForm == validateManualForm(PlainFill(manualForm))

\* probeReading && litresFilled ? litresFilled - probeReading : undefined
manualProbeDiscrepancy(probeReading, litresFilled) ==
  IF probeReading # NoNumber /\ probeReading # 0 /\ litresFilled # 0
  THEN Defined(litresFilled - probeReading) ELSE UNDEFINED

\* previousKmReading ? kmReading - previousKmReading : undefined
manualDistanceTravelled(formData) ==
  IF formData.previousKmReading # NoNumber /\ formData.previousKmReading # 0
  THEN formData.kmReading - formData.previousKmReading ELSE NoNumber

\* distanceTravelled && litresFilled > 0 ? distanceTravelled / litresFilled : undefined
manualKmPerLitre(formData) ==
  LET distanceTravelled == manualDistanceTravelled(formData)
  IN IF distanceTravelled # NoNumber /\ distanceTravelled # 0 /\ formData.litresFilled > 0
     THEN Div(distanceTravelled, formData.litresFilled) ELSE UNDEFINED

recordDataOf(formData) ==
  [DieselRecord(0, formData.fleetNumber, formData.litresFilled) EXCEPT
     !.notes = formData.notes,
     !.kmReading = formData.kmReading,
     !.previousKmReading = formData.previousKmReading,
     !.distanceTravelled = manualDistanceTravelled(formData),
     !.kmPerLitre = manualKmPerLitre(formData),
     !.hasProbe = (formData.fleetNumber \in TRUCKS_WITH_PROBES),
     !.probeReading = formData.probeReading,
     !.probeDiscrepancy = manualProbeDiscrepancy(formData.probeReading,
                                                 formData.litresFilled),
     !.probeVerified = (formData.probeReading # NoNumber)]

manualRecordData == recordDataOf(PlainFill(manualForm))

\* handleSubmit: a form that does not validate is left as it is
manualHandleSubmit ==
  /\ probeModal = ProbeClosed
  /\ manualForm # EmptyManualForm
  /\ Len(dieselRecords) < MaxDieselRecords
  /\ IF manualValidateForm
     THEN /\ dieselRecords' = addDieselRecord(manualRecordData)
          /\ manualForm' = EmptyManualForm
     ELSE UNCHANGED <<dieselRecords, manualForm>>
  /\ UNCHANGED <<trips, appVars, lastCall, result, linkageModal, probeModal, uiVars>>

\* DieselImportModal: a parsed row; a missing probeReading column is NoNumber
\* (an absent or empty column is NoNumber or ""); odometer and cost are those
\* of a plain fill here
CsvRow(fleetNumber, litresFilled, probeReading, notes) ==
  [fleetNumber |-> fleetNumber, litresFilled |-> litresFilled,
   probeReading |-> probeReading, notes |-> notes,
   kmReading |-> 1000, previousKmReading |-> NoNumber,
   costPerLitre |-> NoNumber, totalCost |-> 8325, currency |-> ""]

CsvRows ==
  {CsvRow(f, l, r, n) : f \in DieselFleets, l \in LitresInputs,
                        r \in ProbeInputs \cup {NoNumber}, n \in NoteInputs}

\* the record handleImport makes of a row
importedRecord(row) ==
  LET kmReading == OrZero(row.kmReading)
      previousKmReading == OrZero(row.previousKmReading)
      litresFilled == OrZero(row.litresFilled)
      costPerLitre == OrZero(row.costPerLitre)
      totalCost == OrZero(row.totalCost)
      distanceTravelled == IF previousKmReading > 0
                           THEN kmReading - previousKmReading ELSE 0
      probeReading == OrZero(row.probeReading)
  IN [DieselRecord(0, row.fleetNumber, litresFilled) EXCEPT
        !.notes = row.notes,
        !.kmReading = kmReading,
        !.totalCost = totalCost,
        !.costPerLitre = IF litresFilled > 0 THEN Div(totalCost, litresFilled)
                         ELSE Num(costPerLitre),
        !.previousKmReading = IF previousKmReading > 0 THEN previousKmReading
                              ELSE NoNumber,
        !.distanceTravelled = IF distanceTravelled > 0 THEN distanceTravelled
                              ELSE NoNumber,
        !.kmPerLitre = IF distanceTravelled > 0 /\ litresFilled > 0
                       THEN Div(distanceTravelled, litresFilled) ELSE UNDEFINED,
        !.currency = IF row.currency = "" THEN "ZAR" ELSE row.currency,
        !.hasProbe = (row.fleetNumber \in TRUCKS_WITH_PROBES),
        !.probeReading = IF probeReading > 0 THEN probeReading ELSE NoNumber,
        !.probeDiscrepancy = IF probeReading > 0
                             THEN Defined(litresFilled - probeReading)
                             ELSE UNDEFINED,
        !.probeVerified = (probeReading > 0)]

handleImport ==
  /\ probeModal = ProbeClosed /\ manualForm = EmptyManualForm
  /\ \E n \in 1..(MaxDieselRecords - Len(dieselRecords)) :
       \E data \in [1..n -> CsvRows] :
          dieselRecords' = importDieselFromCSV([i \in 1..n |-> importedRecord(data[i])])
  /\ UNCHANGED <<trips, appVars, lastCall, result, linkageModal, manualForm, probeModal, uiVars>>

\* ProbeVerificationModal: opened for a record, the form starts from it
openProbeModal ==
  \E i \in DOMAIN dieselRecords :
    /\ probeModal = ProbeClosed /\ manualForm = EmptyManualForm
    /\ probeModal' = [recordId |-> dieselRecords[i].id,
                      probeReading |-> dieselRecords[i].probeReading,
                      verificationNotes |-> dieselRecords[i].probeVerificationNotes]
    /\ UNCHANGED <<trips, appVars, lastCall, result, dieselRecords, linkageModal, manualForm, uiVars>>

closeProbeModal ==
  /\ probeModal # ProbeClosed
  /\ probeModal' = ProbeClosed
  /\ UNCHANGED <<trips, appVars, lastCall, result, dieselRecords, linkageModal, manualForm, uiVars>>

probeHandleChange ==
  /\ probeModal # ProbeClosed
  /\ \/ \E r \in ProbeInputs \cup {NoNumber} :
          probeModal' = [probeModal EXCEPT !.probeReading = r]
     \/ \E n \in NoteInputs : probeModal' = [probeModal EXCEPT !.verificationNotes = n]
  /\ probeModal' # probeModal
  /\ UNCHANGED <<trips, appVars, lastCall, result, dieselRecords, linkageModal, manualForm, uiVars>>

LargeDiscrepancyLitres == 50

hasLargeDiscrepancy(record, probeReading) ==
  /\ probeReading # NoNumber
  /\ AbsInt(record.litresFilled - probeReading) > LargeDiscrepancyLitres

probeValidateForm ==
  /\ probeModal.probeReading # NoNumber /\ probeModal.probeReading >= 0
  /\ ~(/\ hasLargeDiscrepancy(RecordOf(probeModal.recordId), probeModal.probeReading)
       /\ probeModal.verificationNotes = "")

\* handleSubmit: a form that does not validate changes nothing
probeHandleSubmit ==
  /\ probeModal # ProbeClosed
  /\ IF probeValidateForm
     THEN /\ dieselRecords' = updateDieselRecord(
                [RecordOf(probeModal.recordId) EXCEPT
                   !.probeReading = probeModal.probeReading,
                   !.probeDiscrepancy = Defined(RecordOf(probeModal.recordId).litresFilled
                                                - probeModal.probeReading),
                   !.probeVerified = TRUE,
                   !.probeVerificationNotes = probeModal.verificationNotes])
          /\ probeModal' = ProbeClosed
     ELSE UNCHANGED <<dieselRecords, probeModal>>
  /\ UNCHANGED <<trips, appVars, lastCall, result, linkageModal, manualForm, uiVars>>

\* no trips, no records, every form closed
InitDiesel == Init

NextDiesel ==
  \/ manualHandleChange
  \/ manualHandleSubmit
  \/ handleImport
  \/ openProbeModal
  \/ closeProbeModal
  \/ probeHandleChange
  \/ probeHandleSubmit

SpecDiesel == InitDiesel /\ [][NextDiesel]_vars

---------------------------------------------------------------------------
(* What manual entry and the import make of their input: the records that
   handleSubmit hands to addDieselRecord and handleImport to
   importDieselFromCSV, for forms and files whose odometer and cost fields
   vary. *)

MaxCsvLines == 2 \* lines after the header in a file

KmInputs == {NoNumber, 1000}
PreviousKmInputs == {NoNumber, 0, 900, 1000, 1200}

ManualForms ==
  {ManualFormData([fleetNumber |-> f, litresFilled |-> 450, probeReading |-> r,
                   notes |-> ""], k, pk) :
     f \in DieselFleets, r \in {NoNumber, 380}, k \in KmInputs, pk \in PreviousKmInputs}

\* the records handleSubmit adds: none when the form does not validate
manualSubmitted(formData) ==
  IF validateManualForm(formData) THEN <<recordDataOf(formData)>> ELSE <<>>

CallManualHandleSubmit ==
  \E formData \in ManualForms :
    /\ Idle
    /\ lastCall' = Call("manualHandleSubmit", formData)
    /\ result' = manualSubmitted(formData)
    /\ UNCHANGED <<trips, appVars, dieselVars, uiVars>>

\* a file is its lines: the header, then data lines and blank lines
HeaderLine == [text |-> "fleetNumber,date,kmReading,..."]
BlankLines == {[text |-> ""], [text |-> "  "]}
DataLine(row) == [text |-> "values", row |-> row]

\* rows of a fleet without probe: odometer cases and cost cases
OdometerRows ==
  {[CsvRow("F2", l, NoNumber, "") EXCEPT !.previousKmReading = pk] :
     l \in {450, NoNumber}, pk \in PreviousKmInputs}
CostRows ==
  {[CsvRow("F2", l, NoNumber, "") EXCEPT !.costPerLitre = c, !.currency = cur] :
     l \in {450, NoNumber}, c \in {NoNumber, 20}, cur \in {"", "USD"}}
CsvLines == BlankLines \cup {DataLine(row) : row \in OdometerRows \cup CostRows}

CsvTexts ==
  {<<HeaderLine>> \o lines :
     lines \in UNION {[1..n -> CsvLines] : n \in 0..MaxCsvLines}}

\* lines[i].trim()
IsBlankLine(line) == line.text \in {"", "  "}

\* parseCSV: one row for every line after the first that is not blank
RECURSIVE parseLines(_, _)
parseLines(lines, i) ==
  IF i > Len(lines) THEN <<>>
  ELSE IF IsBlankLine(lines[i]) THEN parseLines(lines, i + 1)
  ELSE <<lines[i].row>> \o parseLines(lines, i + 1)

parseCSV(text) == parseLines(text, 2)

\* the records handleImport hands to importDieselFromCSV
importedRecords(text) ==
  LET data == parseCSV(text)
  IN [i \in DOMAIN data |-> importedRecord(data[i])]

CallHandleImport ==
  \E text \in CsvTexts :
    /\ Idle
    /\ lastCall' = Call("handleImport", text)
    /\ result' = importedRecords(text)
    /\ UNCHANGED <<trips, appVars, dieselVars, uiVars>>

NextDieselEntry == CallManualHandleSubmit \/ CallHandleImport \/ Return

SpecDieselEntry == Init /\ [][NextDieselEntry]_vars

---------------------------------------------------------------------------
(* TripForm: validate and handleSubmit.  A text field that takes a number is
   empty, not a number, or a number; a date is a day number, 0 when empty. *)

EmptyText == [kind |-> "empty"]
NotANumber == [kind |-> "nan"]
NumberText(n) == [kind |-> "number", value |-> n]

\* isNaN(Number(text)); Number('') is 0
IsNaNText(text) == text.kind = "nan"
NumberOf(text) == IF text.kind = "number" THEN text.value ELSE 0

RevenueTexts == {EmptyText, NotANumber, NumberText(0), NumberText(1000)}
DistanceTexts == {EmptyText, NotANumber, NumberText(0 - 5), NumberText(0), NumberText(100)}
FormDates == 0..2

TripForms ==
  [fleetNumber : {"", "F1"}, driverName : {"", "D1"}, clientName : {"", "C1"},
   clientType : {"", "external"}, route : {"", "R1"},
   baseRevenue : RevenueTexts, startDate : FormDates, endDate : FormDates,
   distanceKm : DistanceTexts]

\* validate without the check of the date order
validateErrorsNoDateOrder(formData) ==
  {f \in {"fleetNumber", "driverName", "clientName", "clientType", "route"} :
      formData[f] = ""}
  \cup (IF formData.baseRevenue = EmptyText \/ IsNaNText(formData.baseRevenue)
           \/ (~IsNaNText(formData.baseRevenue) /\ NumberOf(formData.baseRevenue) <= 0)
        THEN {"baseRevenue"} ELSE {})
  \cup (IF formData.startDate = 0 THEN {"startDate"} ELSE {})
  \cup (IF formData.endDate = 0 THEN {"endDate"} ELSE {})
  \cup (IF formData.distanceKm # EmptyText
           /\ (IsNaNText(formData.distanceKm) \/ NumberOf(formData.distanceKm) < 0)
        THEN {"distanceKm"} ELSE {})

\* validate: the fields that get an error message
validateErrors(formData) ==
  {f \in {"fleetNumber", "driverName", "clientName", "clientType", "route"} :
      formData[f] = ""}
  \cup (IF formData.baseRevenue = EmptyText \/ IsNaNText(formData.baseRevenue)
           \/ (~IsNaNText(formData.baseRevenue) /\ NumberOf(formData.baseRevenue) <= 0)
        THEN {"baseRevenue"} ELSE {})
  \cup (IF formData.startDate = 0 THEN {"startDate"} ELSE {})
  \cup (IF formData.endDate = 0
           \/ (formData.startDate # 0 /\ formData.endDate # 0
               /\ formData.startDate > formData.endDate)
        THEN {"endDate"} ELSE {})
  \cup (IF formData.distanceKm # EmptyText
           /\ (IsNaNText(formData.distanceKm) \/ NumberOf(formData.distanceKm) < 0)
        THEN {"distanceKm"} ELSE {})

\* the tripData handed to onSubmit
tripDataOf(formData) ==
  [fleetNumber |-> formData.fleetNumber, driverName |-> formData.driverName,
   clientName |-> formData.clientName, clientType |-> formData.clientType,
   startDate |-> formData.startDate, endDate |-> formData.endDate,
   route |-> formData.route, baseRevenue |-> NumberOf(formData.baseRevenue),
   distanceKm |-> IF formData.distanceKm = EmptyText THEN UNDEFINED
                  ELSE Defined(NumberOf(formData.distanceKm))]

\* handleSubmit: the errors set and the calls of onSubmit made
tripFormHandleSubmit(formData) ==
  LET errors == validateErrors(formData)
  IN [errors |-> errors,
      onSubmit |-> IF errors = {} THEN <<tripDataOf(formData)>> ELSE <<>>]

CallTripFormHandleSubmit ==
  \E formData \in TripForms :
    /\ Idle
    /\ lastCall' = Call("TripForm.handleSubmit", formData)
    /\ result' = tripFormHandleSubmit(formData)
    /\ UNCHANGED <<trips, appVars, dieselVars, uiVars>>

NextTripForm == CallTripFormHandleSubmit \/ Return

SpecTripForm == Init /\ [][NextTripForm]_vars

---------------------------------------------------------------------------
(* The connection and the Firestore status panel.  Time is counted in whole
   seconds since mount; a pending timer fires at some later moment. *)

MaxElapsed == 7 \* seconds the clock runs

ConnectionStatuses == {"connected", "disconnected", "reconnecting"}

\* what the listener delivers
SnapshotLists == {Array(<<>>), Array(<<DefaultTrip>>)}

Tick ==
  /\ elapsed < MaxElapsed
  /\ loadTimer # 0
  /\ elapsed' = elapsed + 1
  /\ loadTimer' = IF loadTimer > 0 THEN loadTimer - 1 ELSE loadTimer
  /\ UNCHANGED <<trips, appVars, lastCall, result, dieselVars,
                 connectionStatus, lastSyncTime, isRefreshing, isInitialLoad>>

\* the connection changes; the panel's effect runs for the new status
setConnectionStatus ==
  \E status \in ConnectionStatuses \ {connectionStatus} :
    /\ connectionStatus' = status
    /\ lastSyncTime' = IF status = "connected" THEN elapsed ELSE lastSyncTime
    /\ UNCHANGED <<trips, appVars, lastCall, result, dieselVars,
                   isRefreshing, isInitialLoad, loadTimer, elapsed>>

\* the trips change; the panel's effect runs for them
statusDataChange ==
  \E list \in SnapshotLists \ {trips} :
    /\ trips' = list
    /\ lastSyncTime' = IF connectionStatus = "connected" THEN elapsed ELSE lastSyncTime
    /\ UNCHANGED <<appVars, lastCall, result, dieselVars,
                   connectionStatus, isRefreshing, isInitialLoad, loadTimer, elapsed>>

\* the Refresh button is disabled while refreshing or not connected
refreshEnabled == ~isRefreshing /\ connectionStatus = "connected"

handleRefresh ==
  /\ refreshEnabled
  /\ isRefreshing' = TRUE
  /\ UNCHANGED <<trips, appVars, lastCall, result, dieselVars,
                 connectionStatus, lastSyncTime, isInitialLoad, loadTimer, elapsed>>

\* the callback of the timer handleRefresh sets
refreshTimerFires ==
  /\ isRefreshing
  /\ lastSyncTime' = elapsed
  /\ isRefreshing' = FALSE
  /\ UNCHANGED <<trips, appVars, lastCall, result, dieselVars,
                 connectionStatus, isInitialLoad, loadTimer, elapsed>>

NextStatus ==
  \/ Tick
  \/ setConnectionStatus
  \/ statusDataChange
  \/ handleRefresh
  \/ refreshTimerFires
  \/ handleNewTrip
  \/ handleCloseTripForm

SpecStatus == Init /\ [][NextStatus]_vars

---------------------------------------------------------------------------
(* The initial load of App.tsx.  The effect depends on [trips,
   isInitialLoad]: it runs at mount and again whenever the context hands over
   a new trips array or isInitialLoad changes; its cleanup clears the timer
   of the previous run and the run sets a new one.  Time is in seconds. *)

\* setTimeout(..., 5000)
LoadTimeout == 5

\* one run of the effect for the trips array it sees
initialLoadEffect(list) ==
  /\ isInitialLoad' = IF Len(list.items) > 0 /\ isInitialLoad THEN FALSE ELSE isInitialLoad
  /\ loadTimer' = LoadTimeout

\* the component has mounted and the effect has run once, on no trips
InitMount ==
  /\ trips = Array(<<>>)
  /\ editingTrip = UNDEFINED
  /\ showTripForm = FALSE
  /\ selectedTrip = 0
  /\ nextId = 1
  /\ lastCall = NoCall
  /\ result = UNDEFINED
  /\ NoDiesel
  /\ connectionStatus \in ConnectionStatuses
  /\ lastSyncTime = 0
  /\ isRefreshing = FALSE
  /\ isInitialLoad = TRUE
  /\ loadTimer = LoadTimeout
  /\ elapsed = 0

\* the listener delivers a snapshot: trips is a new array, also when it is
\* empty again, and the effect runs for it
tripsSnapshot ==
  \E list \in SnapshotLists :
    /\ trips' = list
    /\ initialLoadEffect(list)
    /\ lastSyncTime' = IF connectionStatus = "connected" THEN elapsed ELSE lastSyncTime
    /\ UNCHANGED <<appVars, lastCall, result, dieselVars,
                   connectionStatus, isRefreshing, elapsed>>

\* the callback of the timer the last run of the effect has set; the
\* isInitialLoad it tests is the one of that run, which is the current one
loadTimerFires ==
  /\ loadTimer = 0
  /\ isInitialLoad' = FALSE
  /\ loadTimer' = IF isInitialLoad THEN LoadTimeout ELSE -1
  /\ UNCHANGED <<trips, appVars, lastCall, result, dieselVars,
                 connectionStatus, lastSyncTime, isRefreshing, elapsed>>

\* renderContent shows the loading screen before anything else
loadingScreen == isInitialLoad

NextInitialLoad ==
  \/ Tick
  \/ tripsSnapshot
  \/ loadTimerFires
  \/ setConnectionStatus

SpecInitialLoad == InitMount /\ [][NextInitialLoad]_vars

---------------------------------------------------------------------------
(* retryOperation.  A running call is kept in result: where it stands, the
   loop counter, the invocations of operation so far, the error caught last
   and the waits made.  The k-th invocation returns the value k or throws
   the error k; an operation that never settles is outside the model. *)

MaxRetries == 3 \* largest maxRetries a call is given

RetryDelays == {0, 100, 500, 1000, 2000}

RECURSIVE Pow2(_)
Pow2(i) == IF i = 0 THEN 1 ELSE 2 * Pow2(i - 1)

\* a wait that grows by one delay each time
backoffDelayLinear(delay, i) == delay * (i + 1)

\* delay * Math.pow(2, i)
backoffDelay(delay, i) == delay * Pow2(i)

Retrying == lastCall.fn = "retryOperation"

\* retryOperation(operation, maxRetries, delay) up to the loop
CallRetryOperation ==
  \E maxRetries \in 0..MaxRetries, delay \in RetryDelays :
    /\ Idle
    /\ lastCall' = Call("retryOperation", [maxRetries |-> maxRetries, delay |-> delay])
    /\ result' = [pc |-> "loop", i |-> 0, calls |-> 0, lastError |-> 0,
                  waits |-> <<>>, value |-> 0]
    /\ UNCHANGED <<trips, appVars, dieselVars, uiVars>>

\* i < maxRetries, operation() is invoked and resolves
operationResolves ==
  /\ Retrying /\ result.pc = "loop" /\ result.i < lastCall.arg.maxRetries
  /\ result' = [result EXCEPT !.calls = @ + 1, !.value = result.calls + 1,
                              !.pc = "returned"]
  /\ UNCHANGED <<trips, appVars, lastCall, dieselVars, uiVars>>

\* i < maxRetries, operation() is invoked and rejects: the error is kept and
\* the backoff timer set
operationRejects ==
  /\ Retrying /\ result.pc = "loop" /\ result.i < lastCall.arg.maxRetries
  /\ result' = [result EXCEPT !.calls = @ + 1, !.lastError = result.calls + 1,
                              !.pc = "waiting"]
  /\ UNCHANGED <<trips, appVars, lastCall, dieselVars, uiVars>>

\* the backoff timer fires, i++
backoffTimerFires ==
  /\ Retrying /\ result.pc = "waiting"
  /\ result' = [result EXCEPT
                  !.waits = Append(@, backoffDelay(lastCall.arg.delay, result.i)),
                  !.i = @ + 1, !.pc = "loop"]
  /\ UNCHANGED <<trips, appVars, lastCall, dieselVars, uiVars>>

\* the loop is over: throw lastError
retryThrows ==
  /\ Retrying /\ result.pc = "loop" /\ result.i >= lastCall.arg.maxRetries
  /\ result' = [result EXCEPT !.pc = "thrown"]
  /\ UNCHANGED <<trips, appVars, lastCall, dieselVars, uiVars>>

\* the caller has the outcome
retrySettled ==
  /\ Retrying /\ result.pc \in {"returned", "thrown"}
  /\ lastCall' = NoCall
  /\ result' = UNDEFINED
  /\ UNCHANGED <<trips, appVars, dieselVars, uiVars>>

retryStep == operationResolves \/ operationRejects \/ backoffTimerFires \/ retryThrows

NextRetry ==
  \/ CallRetryOperation
  \/ operationResolves
  \/ operationRejects
  \/ backoffTimerFires
  \/ retryThrows
  \/ retrySettled

\* a settled operation and a fired timer are followed by the continuation
SpecRetry == Init /\ [][NextRetry]_vars /\ WF_vars(retryStep)

---------------------------------------------------------------------------
(* The diesel efficiency evaluator, written from its description: km per
   litre is counted in tenths, the tolerance in percent, the variance is an
   exact fraction. *)

\* the norms the norms editor starts from: new norm, UD default, other default
DieselNorm(expectedKmPerLitre, tolerancePercentage) ==
  [expectedKmPerLitre |-> expectedKmPerLitre,
   tolerancePercentage |-> tolerancePercentage]
DieselNorms == {DieselNorm(30, 10), DieselNorm(28, 15), DieselNorm(32, 10)}

\* km per litre of a fill, in tenths
KmPerLitreInputs == 10..50

RatLess(p, q) == p.n * q.d < q.n * p.d
RatNeg(p) == [n |-> 0 - p.n, d |-> p.d]

\* (actual - expected) / expected * 100
efficiencyVariance(kmPerLitre, norm) ==
  Div((kmPerLitre - norm.expectedKmPerLitre) * 100, norm.expectedKmPerLitre)

performanceStatus(variance, norm) ==
  IF RatLess(variance, Num(0 - norm.tolerancePercentage)) THEN "poor"
  ELSE IF RatLess(Num(norm.tolerancePercentage), variance) THEN "excellent"
  ELSE "normal"

\* a debrief only for poor performance
requiresDebriefPoorOnly(variance, norm) ==
  performanceStatus(variance, norm) = "poor"

requiresDebrief(variance, norm) ==
  \/ performanceStatus(variance, norm) = "poor"
  \/ RatLess(Num(norm.tolerancePercentage),
             IF variance.n < 0 THEN RatNeg(variance) ELSE variance)

evaluateDieselRecord(kmPerLitre, norm) ==
  LET variance == efficiencyVariance(kmPerLitre, norm)
  IN [efficiencyVariance |-> variance,
      performanceStatus |-> performanceStatus(variance, norm),
      requiresDebrief |-> requiresDebrief(variance, norm)]

CallEvaluateDieselRecord ==
  \E k \in KmPerLitreInputs, norm \in DieselNorms :
    /\ Idle
    /\ lastCall' = Call("evaluateDieselRecord", [kmPerLitre |-> k, norm |-> norm])
    /\ result' = evaluateDieselRecord(k, norm)
    /\ UNCHANGED <<trips, appVars, dieselVars, uiVars>>

NextEvaluator == CallEvaluateDieselRecord \/ Return

SpecEvaluator == Init /\ [][NextEvaluator]_vars

---------------------------------------------------------------------------
(* Properties of the helpers, under SpecHelpers *)

Called(fn) == lastCall.fn = fn
\* the trip the last single-trip helper was applied to
ArgTrip == trips.items[lastCall.arg]

\* the positions of a trip's flagged and unresolved entries
UnresolvedAt(trip) ==
  {j \in DOMAIN trip.costs.items :
     trip.costs.items[j].isFlagged /\ trip.costs.items[j].investigationStatus # "resolved"}
FlaggedAt(trip) == {j \in DOMAIN trip.costs.items : trip.costs.items[j].isFlagged}

\* costs is an array of cost entries, or no array at all
CostsTyped(trip) == IsArray(trip.costs) => ~HasNullItem(trip.costs)

\* C2: for every trip, a trip with an empty cost list included,
\* canCompleteTrip(trip) is true if and only if
\* getUnresolvedFlagsCount(trip.costs) = 0, that is, if and only if no cost
\* entry of the trip is flagged and not resolved.
C2_CanCompleteIffNoUnresolved ==
  (Called("canCompleteTrip") /\ ~IsNullish(ArgTrip)) =>
    /\ result.value <=> (getUnresolvedFlagsCount(ArgTrip.costs) = 0)
    /\ WellFormedTrip(ArgTrip) => (result.value <=> (UnresolvedAt(ArgTrip) = {}))

\* canCompleteTrip answered true for a trip without any cost entry
C2_Witness ==
  /\ Called("canCompleteTrip") /\ ~IsNullish(ArgTrip)
  /\ IsArray(ArgTrip.costs) /\ ArgTrip.costs.items = <<>>
  /\ result.value = TRUE

\* C3: for every trip, shouldAutoCompleteTrip(trip) is true if and only if
\* the trip is active, has at least one flagged cost entry and every flagged
\* entry is resolved; it is false without flagged costs and when not active.
C3_AutoCompleteIff ==
  (Called("shouldAutoCompleteTrip") /\ ~IsNullish(ArgTrip) /\ CostsTyped(ArgTrip)) =>
    (result.value <=>
       /\ ArgTrip.status = "active"
       /\ IsArray(ArgTrip.costs)
       /\ FlaggedAt(ArgTrip) # {}
       /\ \A j \in FlaggedAt(ArgTrip) :
            ArgTrip.costs.items[j].investigationStatus = "resolved")

\* shouldAutoCompleteTrip answered true for a trip with two flags
C3_Witness ==
  /\ Called("shouldAutoCompleteTrip") /\ ~IsNullish(ArgTrip)
  /\ WellFormedTrip(ArgTrip)
  /\ Cardinality(FlaggedAt(ArgTrip)) = 2
  /\ result.value = TRUE

\* C5: for every cost collection, null and non-array ones included,
\* getUnresolvedFlagsCount(costs) <= getFlaggedCostsCount(costs); the same
\* holds of the dashboard's per-driver and overall flag figures.
C5_UnresolvedAtMostFlagged ==
  /\ Called("getUnresolvedFlagsCount") =>
       result.value <= getFlaggedCostsCount(ArgTrip.costs)
  /\ Called("getFlaggedCostsCount") =>
       getUnresolvedFlagsCount(ArgTrip.costs) <= result.value
  /\ Called("dashboardStats") =>
       /\ \A d \in DOMAIN result.value.driverStats :
            result.value.driverStats[d].unresolvedFlags <= result.value.driverStats[d].flags
       /\ Len(result.value.unresolvedFlags) <= Len(result.value.allFlaggedCosts)

\* the dashboard counted a driver with flags of which some, not all, are open
C5_Witness ==
  /\ Called("dashboardStats")
  /\ \E d \in DOMAIN result.value.driverStats :
       /\ result.value.driverStats[d].unresolvedFlags > 0
       /\ result.value.driverStats[d].unresolvedFlags < result.value.driverStats[d].flags

\* the arguments calculateKPIs runs its try block to the end on
KpiArg == ~IsNullish(ArgTrip) /\ CostsTyped(ArgTrip)
          /\ ~additionalCostsThrows(ArgTrip.additionalCosts)

AmountsOf(arr) == IF IsArray(arr) THEN [i \in DOMAIN arr.items |-> arr.items[i].amount] ELSE <<>>

\* C6: calculateKPIs returns totalExpenses = sum of the cost amounts + sum of
\* the additional-cost amounts, netProfit = totalRevenue - totalExpenses, and
\* costPerKm = totalExpenses / distanceKm when distanceKm > 0, else 0;
\* revenue 1000 with costs 200 and 150 over 100 km gives 350, 650, 65, 3.5.
C6_KPIs ==
  (Called("calculateKPIs") /\ KpiArg) =>
    LET k == result.value
        expenses == SumSeq(AmountsOf(ArgTrip.costs)) + SumSeq(AmountsOf(ArgTrip.additionalCosts))
    IN /\ k.totalExpenses = expenses
       /\ k.netProfit = k.totalRevenue - k.totalExpenses
       /\ k.totalRevenue = OrZero(ArgTrip.baseRevenue)
       /\ IF ArgTrip.distanceKm > 0
          THEN RatEq(k.costPerKm, [n |-> expenses, d |-> ArgTrip.distanceKm])
          ELSE k.costPerKm = Num(0)
       /\ (/\ ArgTrip.baseRevenue = 1000
           /\ AmountsOf(ArgTrip.costs) = <<200, 150>>
           /\ AmountsOf(ArgTrip.additionalCosts) = <<>>
           /\ ArgTrip.distanceKm = 100)
          => /\ k.totalExpenses = 350 /\ k.netProfit = 650
             /\ RatEq(k.profitMargin, Num(65))
             /\ RatEq(k.costPerKm, [n |-> 35, d |-> 10])

\* the scenario of the claim, with its results
C6_Witness ==
  /\ Called("calculateKPIs") /\ KpiArg
  /\ ArgTrip.baseRevenue = 1000 /\ ArgTrip.distanceKm = 100
  /\ AmountsOf(ArgTrip.costs) = <<200, 150>>
  /\ AmountsOf(ArgTrip.additionalCosts) = <<>>
  /\ result.value.totalExpenses = 350 /\ result.value.netProfit = 650

\* C7: for every trip whose baseRevenue is 0 or missing,
\* calculateKPIs(trip).profitMargin = 0 whatever the costs; no quotient of
\* the result is a division by zero.
C7_ZeroRevenueZeroMargin ==
  (Called("calculateKPIs") /\ ~IsNullish(ArgTrip)) =>
    /\ ArgTrip.baseRevenue \in {0, NoNumber} => result.value.profitMargin = Num(0)
    /\ IsFinite(result.value.profitMargin)
    /\ IsFinite(result.value.costPerKm)

\* a trip without revenue and with costs: a loss, and margin 0
C7_Witness ==
  /\ Called("calculateKPIs") /\ KpiArg
  /\ ArgTrip.baseRevenue \in {0, NoNumber}
  /\ result.value.netProfit < 0
  /\ result.value.profitMargin = Num(0)

\* C8: the rollup and flag helpers never raise on malformed input (a missing
\* trip, null or non-array costs, missing revenue).
C8_NeverRaises == result # Thrown

\* the helpers throw for a missing trip: calculateKPIs (and generateReport,
\* which calls it) read trip.revenueCurrency again in their catch block
C8_ThrownForMissingTrip ==
  /\ Called("calculateKPIs")
  /\ IsNullish(ArgTrip)
  /\ result = Thrown

ListTyped(l) ==
  /\ IsArray(l)
  /\ \A i \in DOMAIN l.items : ~IsNullish(l.items[i]) /\ CostsTyped(l.items[i])

\* the flagged entries of a list, as <<trip index, cost index>>
FlagPositions(l) ==
  UNION {IF IsArray(l.items[i].costs)
         THEN {<<i, j>> : j \in FlaggedAt(l.items[i])} ELSE {} : i \in DOMAIN l.items}

InPendingGroup(fc) == fc.investigationStatus = "pending"

\* C10: getAllFlaggedCosts returns exactly the cost entries with
\* isFlagged = true, each once and enriched with its own trip's fleet number,
\* route and driver, every pending entry before every non-pending one and,
\* within each of the two groups, by flaggedAt (else date) descending.
C10_FlaggedCostsOrdered ==
  (Called("getAllFlaggedCosts") /\ ListTyped(trips)) =>
    LET r == result.value
    IN /\ Len(r) = Cardinality(FlagPositions(trips))
       /\ \A p \in FlagPositions(trips) :
            LET trip == trips.items[p[1]]
                cost == trip.costs.items[p[2]]
            IN Cardinality({k \in DOMAIN r : r[k].id = cost.id}) = 1
               /\ \E k \in DOMAIN r : r[k] = FlaggedCost(cost, trip)
                                      /\ r[k].tripFleetNumber = trip.fleetNumber
                                      /\ r[k].tripRoute = trip.route
                                      /\ r[k].tripDriverName = trip.driverName
                                      /\ r[k].amount = cost.amount
                                      /\ r[k].investigationStatus = cost.investigationStatus
       /\ \A k \in DOMAIN r : r[k].isFlagged
       /\ \A k \in DOMAIN r : \A m \in DOMAIN r :
            k < m =>
              /\ ~(~InPendingGroup(r[k]) /\ InPendingGroup(r[m]))
              /\ (InPendingGroup(r[k]) <=> InPendingGroup(r[m]))
                   => (IF r[k].flaggedAt # 0 THEN r[k].flaggedAt ELSE r[k].date)
                        >= (IF r[m].flaggedAt # 0 THEN r[m].flaggedAt ELSE r[m].date)

\* three flags of two trips came back reordered: a pending one first, a
\* non-pending one last
C10_Witness ==
  /\ Called("getAllFlaggedCosts") /\ ListTyped(trips)
  /\ Len(result.value) = 3
  /\ InPendingGroup(result.value[1]) /\ ~InPendingGroup(result.value[3])
  /\ result.value[1].tripFleetNumber # result.value[3].tripFleetNumber
  /\ result.value[1].id > result.value[3].id

---------------------------------------------------------------------------
(* Properties of the store, under Spec *)

Signal(id) == InStore(id) /\ shouldAutoCompleteTrip(TripOf(id))
SignalNext(id) ==
  \E i \in DOMAIN trips'.items :
    trips'.items[i].id = id /\ shouldAutoCompleteTrip(trips'.items[i])

\* C4 as claimed: shouldAutoCompleteTrip is edge-triggered, signalling only
\* at the step in which the trip's last unresolved flag becomes resolved and
\* not in the later states in which the flags are still all resolved: after
\* any step it signals for a trip only if it did not signal before the step.
\* The helper is evaluated anew when the stored trips change.
C4_EdgeTriggered ==
  [][trips' # trips => \A id \in TripIds : SignalNext(id) => ~Signal(id)]_vars

\* C4 as amended: shouldAutoCompleteTrip is level-triggered.  It signals in
\* exactly the states in which the trip is active, has a flagged cost entry
\* and no unresolved one, so never for a trip without a flag, and it goes on
\* signalling after every step that leaves the trip active with the same
\* cost entries.
C4_LevelTriggered ==
  /\ [](\A i \in DOMAIN Stored :
          shouldAutoCompleteTrip(Stored[i]) <=>
            /\ Stored[i].status = "active"
            /\ FlaggedAt(Stored[i]) # {}
            /\ UnresolvedAt(Stored[i]) = {})
  /\ [][\A id \in TripIds :
          (/\ Signal(id)
           /\ \E i \in DOMAIN trips'.items :
                /\ trips'.items[i].id = id
                /\ trips'.items[i].status = "active"
                /\ trips'.items[i].costs = TripOf(id).costs)
          => SignalNext(id)]_vars

\* an active trip whose only flag is resolved, with an entry added beside it,
\* open in the edit form: the signal is up
C4_Witness ==
  \E i \in DOMAIN Stored :
    /\ shouldAutoCompleteTrip(Stored[i])
    /\ Len(Stored[i].costs.items) = 2
    /\ Cardinality(FlaggedAt(Stored[i])) = 1
    /\ editingTrip = Stored[i]

---------------------------------------------------------------------------
(* Properties of the weekly aggregator, under SpecHelpers *)

\* the Monday of the Monday-to-Sunday calendar week a day lies in (day 1 is
\* a Monday)
CalendarMonday(day) == day - ((day - 1) % 7)

\* the completed trips of the argument list
CompletedArgs == {i \in Args : IsCompletedTrip(trips.items[i])}

\* C11: two completed trips whose trigger dates lie in the same
\* Monday-to-Sunday calendar week, Sunday included, get the same week key
\* and share a bucket whose weekStart is that week's Monday and whose
\* weekEnd is that week's Sunday.
C11_SameWeekSameBucket ==
  Called("weeklyMetrics") =>
    \A i, j \in CompletedArgs :
      LET di == offloadDate(trips.items[i])
          dj == offloadDate(trips.items[j])
      IN CalendarMonday(di) = CalendarMonday(dj) =>
           /\ weekKey(trips.items[i]) = weekKey(trips.items[j])
           /\ \E b \in DOMAIN result.value :
                /\ result.value[b].weekStart = CalendarMonday(di)
                /\ result.value[b].weekEnd = CalendarMonday(di) + 6

\* a Saturday trip and a trip of the Sunday after it were put in two buckets,
\* the Sunday trip in the bucket of the week that starts the day after
C11_SundayInNextWeek ==
  /\ Called("weeklyMetrics")
  /\ \E i, j \in CompletedArgs :
       /\ offloadDate(trips.items[i]) = 6 /\ offloadDate(trips.items[j]) = 7
       /\ Len(result.value) = 2
       /\ result.value[1].weekStart = 8
       /\ result.value[2].weekStart = 1

\* the trips of the argument list that are past completion, and those of
\* them the aggregator puts in the bucket that starts on a given Monday
PastCompletion ==
  SelectTrips(trips.items, LAMBDA t : t.status \in {"completed", "invoiced", "paid"})
BucketTrips(weekStart) ==
  SelectTrips(PastCompletion, LAMBDA t : mondayOf(offloadDate(t)) = weekStart)
TripCostSum(t) == SumSeq(AmountsOf(t.costs)) + SumSeq(AmountsOf(t.additionalCosts))

\* C12: every completed, invoiced or paid trip is counted in exactly one
\* weekly bucket and active trips in none; a bucket's totalRevenue is the sum
\* of its trips' baseRevenue, its totalCosts the sum of their cost entries
\* and additional costs, its tripCount their number, and its grossProfit is
\* totalRevenue - totalCosts.
C12_WeeklyBuckets ==
  Called("weeklyMetrics") =>
    LET weeks == result.value
    IN /\ \A a, b \in DOMAIN weeks : weeks[a].weekStart = weeks[b].weekStart => a = b
       /\ SumSeq([b \in DOMAIN weeks |-> weeks[b].tripCount]) = Len(PastCompletion)
       /\ \A b \in DOMAIN weeks :
            LET mine == BucketTrips(weeks[b].weekStart)
            IN /\ weeks[b].tripCount = Len(mine) /\ Len(mine) > 0
               /\ weeks[b].totalRevenue = SumSeq([i \in DOMAIN mine |-> mine[i].baseRevenue])
               /\ weeks[b].totalCosts = SumSeq([i \in DOMAIN mine |-> TripCostSum(mine[i])])
               /\ weeks[b].grossProfit = weeks[b].totalRevenue - weeks[b].totalCosts

\* one bucket holds an invoiced and a paid trip, beside it no active trip
C12_Witness ==
  /\ Called("weeklyMetrics")
  /\ Len(trips.items) = 2
  /\ Len(result.value) = 1
  /\ {trips.items[i].status : i \in DOMAIN trips.items} = {"invoiced", "paid"}
  /\ result.value[1].tripCount = 2
  /\ result.value[1].totalRevenue = 3000
  /\ result.value[1].totalCosts = 300

\* C13: the weekly aggregator and the year-over-year deltas never divide by
\* zero.  A week with totalKilometers = 0 has ipk = 0 and cpk = 0, a week with
\* totalRevenue = 0 has profitMargin = 0; calculateChange(current, 0) is
\* {value 0, percentage 0}, and otherwise value = current - previous and
\* percentage = (current - previous) / previous * 100.
C13_NoDivisionByZero ==
  /\ Called("weeklyMetrics") =>
       \A b \in DOMAIN result.value :
         LET week == result.value[b]
         IN /\ IsFinite(week.ipk) /\ IsFinite(week.cpk) /\ IsFinite(week.profitMargin)
            /\ week.totalKilometers = 0 => week.ipk = Num(0) /\ week.cpk = Num(0)
            /\ week.totalRevenue = 0 => week.profitMargin = Num(0)
  /\ Called("calculateChange") =>
       LET current == lastCall.arg.current
           previous == lastCall.arg.previous
       IN IF previous = 0
          THEN result.value = [value |-> 0, percentage |-> Num(0)]
          ELSE /\ result.value.value = current - previous
               /\ RatEq(result.value.percentage,
                        [n |-> (current - previous) * 100, d |-> previous])

\* a delta was taken against a previous year of 0
C13_Witness ==
  /\ Called("calculateChange")
  /\ lastCall.arg.previous = 0 /\ lastCall.arg.current = 150
  /\ result.value.value = 0

\* a week without kilometres and without revenue, its costs above zero
C13_ZeroWeek ==
  /\ Called("weeklyMetrics")
  /\ Len(result.value) = 1
  /\ result.value[1].totalKilometers = 0 /\ result.value[1].totalRevenue = 0
  /\ result.value[1].totalCosts > 0

---------------------------------------------------------------------------
(* Properties of the fleet report, under SpecHelpers *)

\* the sum of a function of numbers over a finite part of its domain
RECURSIVE SumOver(_, _)
SumOver(f, S) ==
  IF S = {} THEN 0
  ELSE LET x == CHOOSE y \in S : TRUE IN f[x] + SumOver(f, S \ {x})

\* the currency the last report was asked for, and the trips in it
ReportCurrency == <<"ZAR", "USD">>[lastCall.arg]
ReportTrips == SelectTrips(trips.items, LAMBDA t : t.revenueCurrency = ReportCurrency)
ClientTyped == \A i \in DOMAIN trips.items :
                 trips.items[i].clientType \in {"internal", "external"}

---------------------------------------------------------------------------
(* Properties of the trip linkage, under SpecLinkage *)

\* the (trip, position) pairs of the cost entries sourced from a record
DieselEntriesOf(recordId) ==
  {<<i, j>> \in UNION {{<<i, j>> : j \in DOMAIN Stored[i].costs.items} : i \in DOMAIN Stored} :
     IsDieselCostOf(Stored[i].costs.items[j], recordId)}

\* C15: after any sequence of link, unlink and trip-deletion actions every
\* diesel record has at most one diesel-sourced cost entry across all trips,
\* has one exactly when it is linked (tripId set), on the trip it is linked
\* to; and no step links a record that is already linked a second time.
C15_EntryTracksLinkage ==
  /\ [](\A r \in DOMAIN dieselRecords :
          LET record == dieselRecords[r]
              entries == DieselEntriesOf(record.id)
          IN /\ Cardinality(entries) <= 1
             /\ (Cardinality(entries) = 1) <=> (record.tripId # 0)
             /\ \A e \in entries : Stored[e[1]].id = record.tripId)
  /\ [][\A r \in DOMAIN dieselRecords :
          dieselRecords[r].tripId # 0 =>
            dieselRecords'[r].tripId \in {0, dieselRecords[r].tripId}]_vars

\* a record already linked, its trip deleted, was linked to another trip
C15_LinkedTwice ==
  \E r \in DOMAIN dieselRecords :
    /\ lastCall = Call("allocateDieselToTrip", dieselRecords[r].id)
    /\ dieselRecords[r].tripId = 2
    /\ ~InStore(1)

\* C16: a link step appends exactly one cost entry of the record to the
\* trip and changes no other entry; the unlink step that follows removes
\* that entry and nothing else and leaves the record unlinked, so the
\* trip's cost entries are again what they were before the link.
C16_LinkUnlinkRoundTrip ==
  [][\A r \in DOMAIN dieselRecords :
       LET before == dieselRecords[r]
           after  == dieselRecords'[r]
           others(ts) == [i \in DOMAIN ts |->
                            SelectTrips(ts[i].costs.items,
                                        LAMBDA c : ~IsDieselCostOf(c, before.id))]
       IN /\ (before.tripId = 0 /\ after.tripId # 0) =>
               /\ DOMAIN trips'.items = DOMAIN Stored
               /\ others(trips'.items) = [i \in DOMAIN Stored |-> Stored[i].costs.items]
               /\ \A i \in DOMAIN Stored :
                    Len(trips'.items[i].costs.items) =
                      Len(Stored[i].costs.items) + (IF Stored[i].id = after.tripId THEN 1 ELSE 0)
          /\ (before.tripId # 0 /\ after.tripId = 0) =>
               /\ DOMAIN trips'.items = DOMAIN Stored
               /\ [i \in DOMAIN Stored |-> trips'.items[i].costs.items] = others(Stored)
               /\ \A i \in DOMAIN Stored :
                    Len(trips'.items[i].costs.items) =
                      Len(Stored[i].costs.items) - (IF Stored[i].id = before.tripId THEN 1 ELSE 0)]_vars

\* a record was unlinked from a trip that holds another cost entry, and the
\* trip holds that entry alone again
C16_Witness ==
  /\ Called("removeDieselFromTrip")
  /\ \A r \in DOMAIN dieselRecords : dieselRecords[r].tripId = 0
  /\ \E i \in DOMAIN Stored :
       /\ Len(Stored[i].costs.items) = 1
       /\ ~IsDieselCostOf(Stored[i].costs.items[1], 1)
  /\ DieselEntriesOf(1) = {}

(***************************************************************************)
(* Properties of the trip edit, under Spec                                 *)
(***************************************************************************)

\* a step of handleUpdateTrip that changes the store
UpdateStep == editingTrip # UNDEFINED /\ editingTrip' = UNDEFINED /\ trips' # trips

\* the fields of a trip the form does not submit a kept value for
KeptFields == DOMAIN DefaultTrip \ {"route"}

\* C17: saving an edit changes only what the form submits: the updated trip
\* keeps the id, the cost entries, the status and the additional-cost,
\* delay-reason and follow-up collections of the trip being edited, every
\* other trip is left alone, and with no trip being edited no stored trip
\* is updated
C17_EditFrame ==
  [][/\ UpdateStep =>
          /\ DOMAIN trips'.items = DOMAIN Stored
          /\ \A i \in DOMAIN Stored :
                IF Stored[i].id = editingTrip.id
                THEN /\ \A f \in KeptFields : trips'.items[i][f] = editingTrip[f]
                     /\ trips'.items[i].id = editingTrip.id
                     /\ trips'.items[i].costs = editingTrip.costs
                     /\ trips'.items[i].status = editingTrip.status
                     /\ trips'.items[i].additionalCosts = editingTrip.additionalCosts
                     /\ trips'.items[i].delayReasons = editingTrip.delayReasons
                     /\ trips'.items[i].followUpHistory = editingTrip.followUpHistory
                ELSE trips'.items[i] = Stored[i]
     /\ (editingTrip = UNDEFINED /\ showTripForm /\ ~showTripForm')
          => \A i \in DOMAIN Stored :
                i \in DOMAIN trips'.items /\ trips'.items[i] = Stored[i]]_vars

\* C17 witness: an edit was saved for a trip that carries cost entries: the
\* form is closed again and the trip has the edited route and its entries
C17_Witness ==
  /\ editingTrip = UNDEFINED /\ ~showTripForm
  /\ \E i \in DOMAIN Stored :
        /\ Stored[i].route = "R2"
        /\ Len(Stored[i].costs.items) > 0
        /\ Stored[i].status = "active"

(***************************************************************************)
(* Properties of the diesel evaluator, under SpecEvaluator                 *)
(***************************************************************************)

Evaluated == lastCall.fn = "evaluateDieselRecord"

\* C18: the status is poor when the variance is below minus the tolerance,
\* excellent when it is above the tolerance and normal otherwise (stated on
\* whole numbers: actual against expected * (100 -/+ tolerance) / 100), a
\* debrief is required whenever the variance is beyond the tolerance either
\* way, and expected 3.0 with tolerance 10 and actual 2.6 gives poor with a
\* debrief
C18_EvaluatorClassifies ==
  Evaluated =>
    LET a == lastCall.arg.kmPerLitre
        e == lastCall.arg.norm.expectedKmPerLitre
        t == lastCall.arg.norm.tolerancePercentage
    IN /\ result.performanceStatus = "poor" <=> a * 100 < e * (100 - t)
       /\ result.performanceStatus = "excellent" <=> a * 100 > e * (100 + t)
       /\ result.performanceStatus \in {"poor", "normal", "excellent"}
       /\ (a * 100 < e * (100 - t) \/ a * 100 > e * (100 + t)) => result.requiresDebrief
       /\ (a = 26 /\ e = 30 /\ t = 10) =>
            /\ result.performanceStatus = "poor"
            /\ result.requiresDebrief
            /\ RatEq(result.efficiencyVariance, Div(0 - 40, 3))

\* C18 witness: the evaluation of 2.6 km/l against 3.0 with tolerance 10
C18_Witness ==
  /\ Evaluated
  /\ lastCall.arg = [kmPerLitre |-> 26, norm |-> DieselNorm(30, 10)]
  /\ result.performanceStatus = "poor" /\ result.requiresDebrief

(***************************************************************************)
(* Properties of the probe cross-check, under SpecDiesel                   *)
(***************************************************************************)

\* |litresFilled - probeReading| of a record with a probe reading
ProbeMagnitude(record) == AbsInt(record.litresFilled - record.probeReading)

HasNotes(record) == record.probeVerificationNotes # "" \/ record.notes # ""

\* C19: by whatever path a record was created or updated, a record whose
\* probe discrepancy magnitude exceeds 50 litres is marked probeVerified only
\* if it carries notes (its verification notes or the notes of the entry)
C19_LargeDiscrepancyNeedsNotes ==
  \A i \in DOMAIN dieselRecords :
    LET record == dieselRecords[i]
    IN (/\ record.probeReading # NoNumber
        /\ ProbeMagnitude(record) > LargeDiscrepancyLitres
        /\ record.probeVerified)
       => HasNotes(record)

\* C20: a record that manual entry or the import adds has a probe reading or
\* discrepancy only when its fleet is probe-equipped, and with a probe
\* reading (0 included) it has probeDiscrepancy = litresFilled - probeReading
C20_ProbeDataOnCreation ==
  [][\A i \in DOMAIN dieselRecords' \ DOMAIN dieselRecords :
       LET record == dieselRecords'[i]
       IN /\ (record.probeReading # NoNumber \/ record.probeDiscrepancy # UNDEFINED)
             => record.fleetNumber \in TRUCKS_WITH_PROBES
          /\ record.probeReading # NoNumber
             => record.probeDiscrepancy
                  = Defined(record.litresFilled - record.probeReading)]_vars

(***************************************************************************)
(* Properties of the derived fields, under SpecDieselEntry                 *)
(***************************************************************************)

\* the derived odometer fields of a record are as the invariant has them
DerivedKmOk(record) ==
  record.previousKmReading # NoNumber =>
    /\ record.distanceTravelled = record.kmReading - record.previousKmReading
    /\ record.distanceTravelled > 0
    /\ record.litresFilled > 0
    /\ record.kmPerLitre = Div(record.distanceTravelled, record.litresFilled)

\* C21: every record manual entry or the import produces with a known
\* previous km reading has distanceTravelled = kmReading - previousKmReading
\* and kmPerLitre = distanceTravelled / litresFilled, with a distance above
\* zero and litres above zero
C21_DerivedKm ==
  lastCall.fn \in {"manualHandleSubmit", "handleImport"} =>
    \A i \in DOMAIN result : DerivedKmOk(result[i])

\* C22: an imported record keeps a costPerLitre given in its row and gets
\* totalCost / litresFilled only when none is given, a row without currency
\* gets ZAR, and there are as many records as non-blank lines after the header
C22_ImportedCostAndCount ==
  lastCall.fn = "handleImport" =>
    LET text == lastCall.arg
        dataLines == SelectSeq(Tail(text), LAMBDA line : ~IsBlankLine(line))
    IN /\ Len(result) = Len(dataLines)
       /\ \A i \in DOMAIN result :
            LET row == dataLines[i].row
            IN /\ row.costPerLitre # NoNumber
                    => result[i].costPerLitre = Num(row.costPerLitre)
               /\ (row.costPerLitre = NoNumber /\ OrZero(row.litresFilled) > 0)
                    => result[i].costPerLitre
                         = Div(row.totalCost, row.litresFilled)
               /\ row.currency = "" => result[i].currency = "ZAR"
               /\ row.currency # "" => result[i].currency = row.currency

(***************************************************************************)
(* Properties of the trip form, under SpecTripForm                         *)
(***************************************************************************)

\* what the form must hold for a submission to go through
TripFormAcceptable(formData) ==
  /\ formData.fleetNumber # "" /\ formData.driverName # ""
  /\ formData.clientName # "" /\ formData.clientType # "" /\ formData.route # ""
  /\ formData.startDate # 0 /\ formData.endDate # 0
  /\ formData.baseRevenue.kind = "number" /\ formData.baseRevenue.value > 0
  /\ formData.endDate >= formData.startDate
  /\ formData.distanceKm.kind # "empty"
       => (formData.distanceKm.kind = "number" /\ formData.distanceKm.value >= 0)

\* C23: onSubmit is invoked only for a form whose required fields are
\* present, whose revenue is a number above 0, whose end date is not before
\* its start date and whose distance, when given, is a number not below 0;
\* otherwise an error is set on a field and onSubmit, the only way from the
\* form to handleAddTrip and handleUpdateTrip, is not invoked
C23_SubmitOnlyWhenValid ==
  lastCall.fn = "TripForm.handleSubmit" =>
    /\ result.onSubmit # <<>> => TripFormAcceptable(lastCall.arg)
    /\ ~TripFormAcceptable(lastCall.arg) =>
          (result.errors # {} /\ result.onSubmit = <<>>)

\* C23 witness: a form with the end date before the start date was
\* submitted and blocked with an error on the end date
C23_Witness ==
  /\ lastCall.fn = "TripForm.handleSubmit"
  /\ lastCall.arg.startDate = 2 /\ lastCall.arg.endDate = 1
  /\ lastCall.arg.baseRevenue = NumberText(1000)
  /\ result.errors = {"endDate"} /\ result.onSubmit = <<>>

(***************************************************************************)
(* Properties of the connection and the status panel, under SpecStatus     *)
(***************************************************************************)

Offline == connectionStatus \in {"disconnected", "reconnecting"}

\* C24: in every state where the connection is disconnected or reconnecting
\* the command that creates a new trip is available
C24_AddTripAvailableOffline == Offline => addTripEnabled

\* C28: lastSyncTime is only ever set at a moment when connectionStatus is
\* connected, and a refresh starts only while connected and not refreshing
C28_SyncOnlyWhenConnected ==
  [][/\ lastSyncTime' # lastSyncTime => connectionStatus' = "connected"
     /\ (~isRefreshing /\ isRefreshing') => connectionStatus = "connected"]_vars

(***************************************************************************)
(* Properties of retryOperation, under SpecRetry                           *)
(***************************************************************************)

RetryDone == Retrying /\ result.pc \in {"returned", "thrown"}

RetryBounded ==
  Retrying =>
    /\ result.calls <= lastCall.arg.maxRetries
    /\ \A k \in DOMAIN result.waits :
         result.waits[k] = lastCall.arg.delay * Pow2(k - 1)
    /\ result.pc = "returned" =>
         (result.value = result.calls /\ Len(result.waits) = result.calls - 1)
    /\ result.pc = "thrown" =>
         /\ result.calls = lastCall.arg.maxRetries
         /\ result.lastError = result.calls
         /\ Len(result.waits) = result.calls

C26_NoLostUpdate ==
  [][(editingTrip # UNDEFINED /\ editingTrip' = UNDEFINED /\ showTripForm)
       => \A i \in DOMAIN Stored :
            Stored[i].id = editingTrip.id
              => /\ i \in DOMAIN trips'.items
                 /\ trips'.items[i].costs = Stored[i].costs
                 /\ trips'.items[i].status = Stored[i].status]_vars

(***************************************************************************)
(* Properties of the views against calculateKPIs, under SpecHelpers        *)
(***************************************************************************)

KpiExpensesOf(ts) == SumSeq([i \in DOMAIN ts |-> calculateKPIs(ts[i]).totalExpenses])
KpiProfitOf(ts) == SumSeq([i \in DOMAIN ts |-> calculateKPIs(ts[i]).netProfit])

\* C27: the dashboard's costs and profit per currency, its expenses per
\* driver and the profit on the Active Trips card equal the sums of
\* calculateKPIs(trip).totalExpenses and calculateKPIs(trip).netProfit over
\* the same trips
C27_ViewsAgreeOnProfit ==
  (Called("dashboardStats") /\ WellFormedList(trips)) =>
    LET stats == result.value
        zarTrips == SelectTrips(trips.items, LAMBDA t : t.revenueCurrency = "ZAR")
        usdTrips == SelectTrips(trips.items, LAMBDA t : t.revenueCurrency = "USD")
    IN /\ stats.zarCosts = KpiExpensesOf(zarTrips)
       /\ stats.zarProfit = KpiProfitOf(zarTrips)
       /\ stats.usdCosts = KpiExpensesOf(usdTrips)
       /\ stats.usdProfit = KpiProfitOf(usdTrips)
       /\ \A d \in DOMAIN stats.driverStats :
            stats.driverStats[d].expenses
              = KpiExpensesOf(SelectTrips(trips.items, LAMBDA t : t.driverName = d))
       /\ \A i \in DOMAIN trips.items :
            activeTripCardProfit(trips.items[i]) = calculateKPIs(trips.items[i]).netProfit

(***************************************************************************)
(* Properties of the initial load, under SpecInitialLoad                   *)
(***************************************************************************)

\* C29: isInitialLoad is false whenever trips is non-empty, it is false
\* once more than 5 seconds have passed since mount, also when the
\* snapshots that arrive are empty, and once false it stays false
C29_InitialLoadEnds ==
  /\ [](Len(trips.items) > 0 => ~loadingScreen)
  /\ [](elapsed > LoadTimeout => ~loadingScreen)
  /\ [][~loadingScreen => ~loadingScreen']_vars

====
